---- MODULE Spec2Model ----
(***************************************************************************)
(* A model of rkr35/blps, the SDK generator for a class-hierarchy          *)
(* reflection runtime: the driver loop sdk(), the struct layout walk       *)
(* (write_structure / get_fields / add_fields), the property classifier,   *)
(* the per-scope name deduplication, the bitfield grouping and accessor    *)
(* synthesis, the runtime bit helpers and the scoped text writer.          *)
(*                                                                         *)
(* Text is a sequence of one-character strings, so that formatting         *)
(* ("{}_{}", "{:#x}") is computed and two texts are equal exactly when     *)
(* the bytes written are equal.  Offsets and sizes are u32 in the code;    *)
(* the graphs of the runs keep every sum and product far below 2^32 and    *)
(* every struct at least as large as its super, so no u32 operation of     *)
(* the layout walk wraps.  A u32 that is used as a bit set is a sequence   *)
(* of 32 booleans, bit 0 first.                                            *)
(***************************************************************************)
EXTENDS Integers, Sequences, FiniteSets, TLC

VARIABLES
    statics,     \* sdk: the marker classes the object table holds
    objects,     \* sdk: the global object table (non-null slots, table order)
    cursor,      \* sdk: index of the next object of the table
    sink,        \* sdk: the lines written to the output file so far
    result,      \* sdk: "setup" | "running" | "Ok" | the error sdk() returned
    log,         \* sdk: per processed object, its result and the lines it wrote
    counts,      \* names: the name_counts map of one scope
    raws,        \* names: the raw names passed to get_unique_name so far
    emitted,     \* names: the names get_unique_name returned, in order
    backing,     \* bits: the u32 backing value of one bitfield
    prevb,       \* bits: the backing value before the last set_bit
    lastop,      \* bits: the last set_bit call, <<bit, value>>, or <<>>
    nops,        \* bits: number of set_bit calls made
    buffer,      \* genial: the lines written through the scopes
    scopes,      \* genial: the open scope objects, outermost first
    roots,       \* genial: per root Scope made, the sink before and after it
    prior,       \* sdk: the file and the result each earlier run of sdk() left
    FUNCTION,    \* wrapper: the static handle cache of one generated wrapper
    flags,       \* wrapper: the flags of the game function the wrapper calls
    called       \* wrapper: per call made, what it found and what it did

sdkVars == <<statics, objects, cursor, sink, result, log>>
nameVars == <<counts, raws, emitted>>
bitVars == <<backing, prevb, lastop, nops>>
genVars == <<buffer, scopes, roots>>
callVars == <<FUNCTION, flags, called>>
vars == <<statics, objects, cursor, sink, result, log, counts, raws, emitted,
               backing, prevb, lastop, nops, buffer, scopes, roots, prior,
               FUNCTION, flags, called>>

(***************************************************************************)
(* Text helpers                                                            *)
(***************************************************************************)

\* Option<&str>::None: a name-table slot that does not resolve.
NoName == <<"<none>">>

\* A null pointer where the graph holds a reference.
NullRef == <<"<null>">>

HexDigits == <<"0","1","2","3","4","5","6","7","8","9","a","b","c","d","e","f">>

RECURSIVE ToBase(_, _)
\* Display of an unsigned integer in the given base (format!("{}"), "{:x}").
ToBase(n, base) ==
    IF n < base THEN <<HexDigits[n + 1]>>
    ELSE ToBase(n \div base, base) \o <<HexDigits[(n % base) + 1]>>

Dec(n) == ToBase(n, 10)

\* "{:#x}"
Hex(n) == <<"0", "x">> \o ToBase(n, 16)

IsPrefix(p, s) == Len(p) <= Len(s) /\ SubSeq(s, 1, Len(p)) = p

(***************************************************************************)
(* genial: the indentation-tracking writer                                 *)
(***************************************************************************)

\* Writer::INDENT
INDENT == 4

\* One written line: the indent it was written at and what it says.
Ln(ind, kind, name, typ, off, len) ==
    [ind |-> ind, kind |-> kind, name |-> name, typ |-> typ, off |-> off, len |-> len]

\* ind_ln!(writer, ...): one line at the writer's indent.
ind_ln(buf, indent, kind, name, typ, off, len) ==
    Append(buf, Ln(indent, kind, name, typ, off, len))

\* The mutant of nest: the child writes at its parent's indent.
nest_flat(indent) == indent

\* Writer::nest: the child's view, one level deeper.
nest(indent) == indent + INDENT

\* Writer::unnest: the view a closer is written through.
unnest(indent) == indent - INDENT

\* The mutant of DropScope: the closer written at the body's indent.
DropScopeNoUnnest(buf, indent) ==
    ind_ln(buf, indent, "closer", <<>>, <<>>, 0, 0)

\* Drop for Structure / Enumeration / Impl / Function / IfBlock.
DropScope(buf, indent) ==
    ind_ln(buf, unnest(indent), "closer", <<>>, <<>>, 0, 0)

\* WriterWrapper::line
line(buf, indent, kind, name) ==
    ind_ln(buf, indent, kind, name, <<>>, 0, 0)

\* Structure::field
field(buf, indent, name, typ) ==
    ind_ln(buf, indent, "field", name, typ, 0, 0)

(***************************************************************************)
(* game: the reflection graph                                              *)
(***************************************************************************)

Range(s) == {s[i] : i \in 1..Len(s)}

\* Object::is: the runtime-class chain of the object holds the marker.
Is(object, marker) == marker \in Range(object.chain)

\* helper::get_name: the name-table text of an object, or NullName.
NameFails(name) == name = NoName

\* A child node of a struct: a property or, with "Function" in its chain,
\* a method.  inner/key/value are <<>> (null) or <<property>>; ref is the
\* name of the referenced enum / class / struct, NullRef for a null
\* pointer, NoName when that object's name is unset; ref_size is the
\* property_size of a referenced struct; param is what the
\* property flags say ("Input", "Output", "None"); a method has its
\* parameters in params, its outer chain and the name of its class.
Prop(chain, name, offset, element_size, array_dim, bitmask) ==
    [chain |-> chain, name |-> name, offset |-> offset,
     element_size |-> element_size, array_dim |-> array_dim,
     bitmask |-> bitmask, inner |-> <<>>, key |-> <<>>, value |-> <<>>,
     ref |-> NullRef, ref_size |-> 0, param |-> "None", native |-> FALSE, params |-> <<>>,
     outers |-> <<>>, class_name |-> NullRef]

PropertyChain(c) == <<c, "Property", "Field", "Object">>

(***************************************************************************)
(* property_info: the classifier                                           *)
(***************************************************************************)

\* size_of::<u32>(), the backing of a boolean
BoolSize == 4
\* size_of::<u8>()
ByteSize == 1
\* size_of::<usize>() of the 32-bit target
PointerSize == 4
\* size_of::<f32>()
FloatSize == 4
\* size_of::<i32>()
IntSize == 4
\* size_of::<Array<usize>>(): data pointer, count, max
ArraySize == 12
\* size_of::<FString>(), FString = Array<u16>
StrSize == 12
\* size_of::<NameIndex>(): index, number
NameSize == 8
\* MAP_SIZE_BYTES
MAP_SIZE_BYTES == 20
\* size_of::<ScriptDelegate>(): an object pointer and a NameIndex
DelegateSize == 12
\* size_of::<ScriptInterface>(): an object pointer and an interface pointer
InterfaceSize == 8

T_u32 == <<"u","3","2">>
T_u8 == <<"u","8">>
T_f32 == <<"f","3","2">>
T_i32 == <<"i","3","2">>
T_bool == <<"b","o","o","l">>
T_NameIndex == <<"N","a","m","e","I","n","d","e","x">>
T_FString == <<"F","S","t","r","i","n","g">>
T_ScriptDelegate == <<"S","c","r","i","p","t","D","e","l","e","g","a","t","e">>
T_ScriptInterface == <<"S","c","r","i","p","t","I","n","t","e","r","f","a","c","e">>
T_Array == <<"A","r","r","a","y","<">>
T_Option == <<"O","p","t","i","o","n","<","&","'","s","t","a","t","i","c"," ">>
T_Map == <<"M","a","p","<">>
T_u8s == <<"[","u","8",";"," ">>

\* PropertyInfo::new and the error results of try_from.
Info(size, field_type, comment) ==
    [err |-> "", size |-> size, field_type |-> field_type, comment |-> comment]

\* The mutant of InfoErr: a size and a type where try_from returns Err.
InfoErrAsInfo(e) == Info(0, <<>>, <<>>)

InfoErr(e) == [err |-> e, size |-> 0, field_type |-> <<>>, comment |-> <<>>]

RECURSIVE PropertyInfo(_)
\* impl TryFrom<&Property> for PropertyInfo
PropertyInfo(property) ==
    IF Is(property, "ArrayProperty") THEN
        IF property.inner = <<>> THEN InfoErr("NullArrayInner")
        ELSE LET inner == PropertyInfo(property.inner[1]) IN
             IF inner.err # "" THEN inner
             ELSE Info(ArraySize, T_Array \o inner.field_type \o <<">">>, inner.comment)
    ELSE IF Is(property, "BoolProperty") THEN Info(BoolSize, T_u32, <<>>)
    ELSE IF Is(property, "ByteProperty") THEN
        IF property.ref = NullRef THEN Info(ByteSize, T_u8, <<>>)
        ELSE IF NameFails(property.ref) THEN InfoErr("NullName")
        ELSE Info(ByteSize, property.ref, <<>>)
    ELSE IF Is(property, "ClassProperty") THEN
        IF property.ref = NullRef THEN InfoErr("NullMetaClass")
        ELSE IF NameFails(property.ref) THEN InfoErr("NullName")
        ELSE Info(PointerSize, T_Option \o property.ref \o <<">">>, <<>>)
    ELSE IF Is(property, "DelegateProperty") THEN Info(DelegateSize, T_ScriptDelegate, <<>>)
    ELSE IF Is(property, "FloatProperty") THEN Info(FloatSize, T_f32, <<>>)
    ELSE IF Is(property, "IntProperty") THEN Info(IntSize, T_i32, <<>>)
    ELSE IF Is(property, "InterfaceProperty") THEN
        IF property.ref = NullRef THEN InfoErr("NullInterfaceClass")
        ELSE IF NameFails(property.ref) THEN InfoErr("NullName")
        ELSE Info(InterfaceSize, T_ScriptInterface, property.ref)
    ELSE IF Is(property, "MapProperty") THEN
        IF property.key = <<>> THEN InfoErr("NullMapKeyProperty")
        ELSE IF property.value = <<>> THEN InfoErr("NullMapValueProperty")
        ELSE LET key == PropertyInfo(property.key[1]) IN
             IF key.err # "" THEN key
             ELSE LET value == PropertyInfo(property.value[1]) IN
                  IF value.err # "" THEN value
                  ELSE Info(MAP_SIZE_BYTES,
                            T_u8s \o Dec(MAP_SIZE_BYTES) \o <<"]">>,
                            T_Map \o key.field_type \o <<",", " ">>
                                  \o value.field_type \o <<">">>)
    ELSE IF Is(property, "NameProperty") THEN Info(NameSize, T_NameIndex, <<>>)
    ELSE IF Is(property, "ObjectProperty") THEN
        IF property.ref = NullRef THEN InfoErr("NullPropertyClass")
        ELSE IF NameFails(property.ref) THEN InfoErr("NullName")
        ELSE Info(PointerSize, T_Option \o property.ref \o <<">">>, <<>>)
    ELSE IF Is(property, "StrProperty") THEN Info(StrSize, T_FString, <<>>)
    ELSE IF Is(property, "StructProperty") THEN
        IF property.ref = NullRef THEN InfoErr("NullPropertyStruct")
        ELSE IF NameFails(property.ref) THEN InfoErr("NullName")
        ELSE Info(property.element_size, property.ref, <<>>)
    ELSE InfoErr("UnknownProperty")

\* PropertyInfo::into_typed_comment: "type" or "type /* comment */".
into_typed_comment(info) ==
    IF info.comment = <<>> THEN info.field_type
    ELSE info.field_type \o <<" ","/","*"," ">> \o info.comment \o <<" ","*","/">>

(***************************************************************************)
(* dump: per-scope name deduplication                                      *)
(***************************************************************************)

\* The mutant of get_unique_name: the counter is read before it is bumped.
get_unique_name_stale(name_counts, name) ==
    LET count == IF name \in DOMAIN name_counts THEN name_counts[name] ELSE 0
        bumped == IF name \in DOMAIN name_counts THEN (name_counts[name] + 1) % 256 ELSE 0
    IN  [counts |-> [n \in DOMAIN name_counts \cup {name} |->
                        IF n = name THEN bumped ELSE name_counts[n]],
         name |-> IF count <= 1 THEN name ELSE name \o <<"_">> \o Dec(count - 1)]

\* get_unique_name: entry(name).and_modify(|c| *c += 1).or_default() on a
\* HashMap<&str, u8>, then the bare name for 0 and "{name}_{count}" otherwise.
get_unique_name(name_counts, name) ==
    LET count == IF name \in DOMAIN name_counts
                 THEN (name_counts[name] + 1) % 256
                 ELSE 0
    IN  [counts |-> [n \in DOMAIN name_counts \cup {name} |->
                        IF n = name THEN count ELSE name_counts[n]],
         name |-> IF count = 0 THEN name ELSE name \o <<"_">> \o Dec(count)]

N_mod == <<"m","o","d">>

\* scrub_reserved_name
scrub_reserved_name(name) ==
    IF name = N_mod THEN <<"r","#">> \o N_mod ELSE name

(***************************************************************************)
(* dump::bitfield: grouping of booleans                                    *)
(***************************************************************************)

\* bitfield::FIELD
FIELD == <<"b","i","t","f","i","e","l","d">>

\* The mutant of BitfieldsAdd: every boolean opens a group of its own.
BitfieldsAddAlwaysNew(bitfields, offset, name) ==
    [bitfields |-> Append(bitfields, [offset |-> offset, fields |-> <<name>>]),
     instr |-> "EmitField"]

\* Bitfields::add (with Bitfield::new, Bitfield::add, new_bitfield)
BitfieldsAdd(bitfields, offset, name) ==
    IF bitfields # <<>> /\ bitfields[Len(bitfields)].offset = offset
    THEN [bitfields |-> [bitfields EXCEPT ![Len(bitfields)].fields = Append(@, name)],
          instr |-> "Skip"]
    ELSE [bitfields |-> Append(bitfields, [offset |-> offset, fields |-> <<name>>]),
          instr |-> "EmitField"]

(***************************************************************************)
(* dump: the struct layout walk                                            *)
(***************************************************************************)

\* Every sized non-definition child, wherever it lies.
IsFieldAnywhere(p, offset) ==
    /\ p.element_size > 0
    /\ ~Is(p, "ScriptStruct") /\ ~Is(p, "Const") /\ ~Is(p, "Enum") /\ ~Is(p, "Function")

\* Struct::iter_children filtered as get_fields does: sized children at
\* or above the base offset that are no nested type definitions.
IsField(p, offset) ==
    /\ p.element_size > 0
    /\ p.offset >= offset
    /\ ~Is(p, "ScriptStruct") /\ ~Is(p, "Const") /\ ~Is(p, "Enum") /\ ~Is(p, "Function")

\* property_compare
property_compare(p, q) ==
    IF p.offset < q.offset THEN "Less"
    ELSE IF p.offset > q.offset THEN "Greater"
    ELSE IF Is(p, "BoolProperty") /\ Is(q, "BoolProperty")
         THEN IF p.bitmask < q.bitmask THEN "Less"
              ELSE IF p.bitmask > q.bitmask THEN "Greater" ELSE "Equal"
         ELSE "Equal"

RECURSIVE InsertTail(_, _, _)
\* One insertion of the stable sort: x moves left past every element it is
\* Less than, scanning from the tail.
InsertTail(sorted, x, j) ==
    IF j >= 1 /\ property_compare(x, sorted[j]) = "Less"
    THEN InsertTail(sorted, x, j - 1)
    ELSE SubSeq(sorted, 1, j) \o <<x>> \o SubSeq(sorted, j + 1, Len(sorted))

RECURSIVE SortBy(_, _)
\* properties.sort_by(property_compare): stable, short slices by insertion.
SortBy(done, rest) ==
    IF rest = <<>> THEN done
    ELSE SortBy(InsertTail(done, Head(rest), Len(done)), Tail(rest))

RECURSIVE Filter(_, _)
Filter(props, offset) ==
    IF props = <<>> THEN <<>>
    ELSE (IF IsField(Head(props), offset) THEN <<Head(props)>> ELSE <<>>)
         \o Filter(Tail(props), offset)

\* get_fields
get_fields(structure, offset) == SortBy(<<>>, Filter(structure.children, offset))

\* emit_field: a blank line, the "// offset(length)" comment, the field.
emit_field(buf, indent, name, typ, offset, length) ==
    field(ind_ln(ind_ln(buf, indent, "nil", <<>>, <<>>, 0, 0),
                 indent, "span", <<>>, <<>>, offset, length),
          indent, name, typ)

N_pad_at == <<"p","a","d","_","a","t","_">>

\* The mutant of add_padding: a gap is left without a padding field.
add_padding_none(buf, indent, offset, size) == buf

\* add_padding
add_padding(buf, indent, offset, size) ==
    emit_field(buf, indent, N_pad_at \o Hex(offset),
               T_u8s \o Hex(size) \o <<"]">>, offset, size)

N_pub == <<"p","u","b"," ">>

\* The mutant of size_mismatch: a difference that stops at zero, which
\* misses a classified size above the element size.
size_mismatch_saturating(property, info) ==
    IF property.element_size * property.array_dim > info.size * property.array_dim
    THEN property.element_size * property.array_dim - info.size * property.array_dim
    ELSE 0

\* i64::from(total_property_size) - i64::from(info.size * property.array_dim)
size_mismatch(property, info) ==
    property.element_size * property.array_dim - info.size * property.array_dim

\* The state of the add_fields loop: the text written, the cursor, the
\* bitfield groups, the field_name_counts map and the error returned, if any.
FieldsState(buf, offset) ==
    [buf |-> buf, offset |-> offset, bitfields |-> <<>>,
     counts |-> [n \in {} |-> 0], err |-> "", mismatch |-> 0, info |-> InfoErr("")]

\* The field emitted for a property that passed the checks, under the name
\* given (the property's own, or FIELD for the first boolean of a group).
AddField(st, buf, indent, property, info, name, bitfields) ==
    LET unique == get_unique_name(st.counts, scrub_reserved_name(name))
        total_property_size == property.element_size * property.array_dim
        typed == into_typed_comment(info)
        field_type == IF property.array_dim > 1
                      THEN <<"[">> \o typed \o <<";", " ">> \o Dec(property.array_dim) \o <<"]">>
                      ELSE typed
    IN  [st EXCEPT !.buf = emit_field(buf, indent, N_pub \o unique.name, field_type,
                                      property.offset, total_property_size),
                   !.counts = unique.counts,
                   !.bitfields = bitfields,
                   !.offset = property.offset + total_property_size]

\* One iteration of the loop of add_fields.
AddFieldsStep(st, indent, property) ==
    LET buf == IF st.offset < property.offset
               THEN add_padding(st.buf, indent, st.offset, property.offset - st.offset)
               ELSE st.buf
        info == PropertyInfo(property)
        added == BitfieldsAdd(st.bitfields, property.offset, property.name)
    IN  IF info.err # "" THEN [st EXCEPT !.buf = buf, !.err = info.err]
        ELSE IF size_mismatch(property, info) # 0
             THEN [st EXCEPT !.buf = buf, !.err = "PropertySizeMismatch",
                             !.mismatch = size_mismatch(property, info), !.info = info]
        ELSE IF NameFails(property.name) THEN [st EXCEPT !.buf = buf, !.err = "NullName"]
        ELSE IF Is(property, "BoolProperty")
             THEN IF added.instr = "Skip"
                  THEN [st EXCEPT !.buf = buf, !.bitfields = added.bitfields]
                  ELSE AddField(st, buf, indent, property, info, FIELD, added.bitfields)
        ELSE AddField(st, buf, indent, property, info, property.name, st.bitfields)

RECURSIVE AddFieldsLoop(_, _, _)
AddFieldsLoop(st, indent, properties) ==
    IF properties = <<>> \/ st.err # "" THEN st
    ELSE AddFieldsLoop(AddFieldsStep(st, indent, Head(properties)), indent, Tail(properties))

\* add_fields
add_fields(buf, indent, offset, properties) ==
    AddFieldsLoop(FieldsState(buf, offset), indent, properties)

(***************************************************************************)
(* heck: case conversion of identifiers                                    *)
(***************************************************************************)

Uppers == <<"A","B","C","D","E","F","G","H","I","J","K","L","M","N","O","P","Q","R","S","T","U","V","W","X","Y","Z">>
Lowers == <<"a","b","c","d","e","f","g","h","i","j","k","l","m","n","o","p","q","r","s","t","u","v","w","x","y","z">>
Digits == <<"0","1","2","3","4","5","6","7","8","9">>

IsUpper(c) == \E i \in 1..Len(Uppers) : Uppers[i] = c
IsLower(c) == \E i \in 1..Len(Lowers) : Lowers[i] = c
IsAlnum(c) == IsUpper(c) \/ IsLower(c) \/ (\E i \in 1..Len(Digits) : Digits[i] = c)

ToLower(c) == IF IsUpper(c) THEN Lowers[CHOOSE i \in 1..Len(Uppers) : Uppers[i] = c] ELSE c
ToUpper(c) == IF IsLower(c) THEN Uppers[CHOOSE i \in 1..Len(Lowers) : Lowers[i] = c] ELSE c

LowerWord(w) == [i \in 1..Len(w) |-> ToLower(w[i])]
CapitalWord(w) == [i \in 1..Len(w) |-> IF i = 1 THEN ToUpper(w[i]) ELSE ToLower(w[i])]

RECURSIVE SplitOn(_, _, _)
\* str::split on the characters the predicate set holds: the pieces,
\* empty ones included.
SplitOn(s, seps, piece) ==
    IF s = <<>> THEN <<piece>>
    ELSE IF Head(s) \in seps THEN <<piece>> \o SplitOn(Tail(s), seps, <<>>)
    ELSE SplitOn(Tail(s), seps, Append(piece, Head(s)))

NonAlnum(s) == {s[i] : i \in {j \in 1..Len(s) : ~IsAlnum(s[j])}}

RECURSIVE SegWords(_, _, _, _, _)
\* The word boundaries heck finds in one alphanumeric piece: after a
\* lowercase letter followed by an uppercase one, and before the last
\* letter of an uppercase run that a lowercase letter follows.
SegWords(w, i, init, mode, acc) ==
    IF i > Len(w) THEN acc
    ELSE IF i = Len(w) THEN Append(acc, SubSeq(w, init, Len(w)))
    ELSE LET c == w[i]
             next == w[i + 1]
             next_mode == IF IsLower(c) THEN "Lowercase"
                          ELSE IF IsUpper(c) THEN "Uppercase" ELSE mode
         IN  IF next_mode = "Lowercase" /\ IsUpper(next)
             THEN SegWords(w, i + 1, i + 1, "Boundary", Append(acc, SubSeq(w, init, i)))
             ELSE IF mode = "Uppercase" /\ IsUpper(c) /\ IsLower(next)
             THEN SegWords(w, i + 1, i, "Boundary", Append(acc, SubSeq(w, init, i - 1)))
             ELSE SegWords(w, i + 1, init, next_mode, acc)

RECURSIVE AllWords(_)
AllWords(pieces) ==
    IF pieces = <<>> THEN <<>>
    ELSE SegWords(Head(pieces), 1, 1, "Boundary", <<>>) \o AllWords(Tail(pieces))

HeckWords(s) == AllWords(SplitOn(s, NonAlnum(s), <<>>))

RECURSIVE JoinWith(_, _)
JoinWith(words, sep) ==
    IF words = <<>> THEN <<>>
    ELSE IF Len(words) = 1 THEN words[1]
    ELSE words[1] \o sep \o JoinWith(Tail(words), sep)

\* SnakeCase::to_snake_case
to_snake_case(s) ==
    JoinWith([i \in 1..Len(HeckWords(s)) |-> LowerWord(HeckWords(s)[i])], <<"_">>)

\* CamelCase::to_camel_case
to_camel_case(s) ==
    JoinWith([i \in 1..Len(HeckWords(s)) |-> CapitalWord(HeckWords(s)[i])], <<>>)

(***************************************************************************)
(* dump::bitfield: accessor synthesis                                      *)
(***************************************************************************)

\* The closure get_count of Bitfield::emit, on a HashMap<Cow<str>, usize>.
get_count(cnts, s) ==
    LET count == IF s \in DOMAIN cnts THEN cnts[s] + 1 ELSE 0
    IN  [counts |-> [n \in DOMAIN cnts \cup {s} |-> IF n = s THEN count ELSE cnts[n]],
         count |-> count]

\* Display for Identifier: "bitfield", or "bitfield_{id}" for id > 0.
Identifier(name, id) ==
    IF id > 0 THEN name \o <<"_">> \o Dec(id) ELSE name

N_is == <<"i","s","_">>
N_set == <<"s","e","t","_">>
N_get_c == <<"g","e","t"," ">>
N_set_c == <<"s","e","t"," ">>

\* The two accessors of one boolean: each a comment, a function header at
\* the impl's indent, the call on the backing field with the bit, a closer.
EmitAccessors(buf, indent, name, bit, fld, normalized) ==
    LET g1 == line(buf, indent, "comment", N_get_c \o fld)
        g2 == ind_ln(g1, indent, "fn", N_is \o normalized, T_bool, 0, 0)
        g3 == ind_ln(g2, nest(indent), "is_bit_set", name, <<>>, bit, 0)
        g4 == DropScope(g3, nest(indent))
        s1 == line(g4, indent, "comment", N_set_c \o fld)
        s2 == ind_ln(s1, indent, "fn", N_set \o normalized, <<>>, 0, 0)
        s3 == ind_ln(s2, nest(indent), "set_bit", name, <<>>, bit, 0)
    IN  DropScope(s3, nest(indent))

RECURSIVE BitfieldEmitLoop(_, _, _, _, _, _)
\* The loop of Bitfield::emit over (bit, field) in self.fields.enumerate().
BitfieldEmitLoop(buf, indent, name, fields, bit, cnts) ==
    IF bit >= Len(fields) THEN buf
    ELSE LET raw == fields[bit + 1]
             c1 == get_count(cnts, raw)
             fld == IF c1.count > 0 THEN raw \o <<"_">> \o Dec(c1.count) ELSE raw
             has_hungarian_prefix ==
                 Len(fld) >= 2 /\ fld[1] = "b" /\ IsUpper(fld[2])
             f == IF has_hungarian_prefix THEN Tail(fld) ELSE fld
             snake == to_snake_case(f)
             c2 == get_count(c1.counts, snake)
             normalized == IF c2.count > 0 THEN snake \o <<"_">> \o Dec(c2.count) ELSE snake
         IN  BitfieldEmitLoop(
                 EmitAccessors(buf, indent, name, bit, fld, normalized),
                 indent, name, fields, bit + 1, c2.counts)

\* Bitfield::emit
BitfieldEmit(buf, indent, name, bitfield) ==
    BitfieldEmitLoop(buf, indent, name, bitfield.fields, 0, [n \in {} |-> 0])

RECURSIVE BitfieldsEmitLoop(_, _, _, _)
BitfieldsEmitLoop(buf, indent, bitfields, i) ==
    IF i >= Len(bitfields) THEN buf
    ELSE BitfieldsEmitLoop(
             BitfieldEmit(buf, indent, Identifier(FIELD, i), bitfields[i + 1]),
             indent, bitfields, i + 1)

\* Bitfields::emit: nothing without groups, else one impl block.
BitfieldsEmit(buf, indent, bitfields, structure) ==
    IF bitfields = <<>> THEN buf
    ELSE DropScope(
             BitfieldsEmitLoop(line(buf, indent, "impl", structure), nest(indent), bitfields, 0),
             nest(indent))

(***************************************************************************)
(* dump::helper                                                            *)
(***************************************************************************)

\* The literal denylist of resolve_duplicate.
DUPLICATES ==
    { <<"E","C","o","m","p","a","r","e","O","b","j","e","c","t","O","u","t","p","u","t","L","i","n","k","I","d","s">>,
      <<"E","F","l","i","g","h","t","M","o","d","e">>,
      <<"C","h","e","c","k","p","o","i","n","t","R","e","c","o","r","d">>,
      <<"T","e","r","r","a","i","n","W","e","i","g","h","t","e","d","M","a","t","e","r","i","a","l">>,
      <<"P","r","o","j","e","c","t","i","l","e","B","e","h","a","v","i","o","r","S","e","q","u","e","n","c","e","S","t","a","t","e","D","a","t","a">> }

\* Object::iter_outer as names: the object itself, then its outers.
OuterNames(object) == <<object.name>> \o object.outers

\* The outer and the outer's outer are joined before a denylisted name.
resolve_duplicate_nearest(object) ==
    IF NameFails(object.name) THEN [err |-> "NullName", name |-> <<>>]
    ELSE IF object.name \notin DUPLICATES THEN [err |-> "", name |-> object.name]
    ELSE IF Len(object.outers) < 2 THEN [err |-> "ModuleSubmodule", name |-> <<>>]
    ELSE [err |-> "",
          name |-> object.outers[2] \o <<"_">> \o object.outers[1] \o <<"_">>
                   \o object.name]

\* helper::resolve_duplicate: the bare name, or for a denylisted name the
\* last and the last-but-one element of the outer chain joined before it.
resolve_duplicate(object) ==
    LET chain == OuterNames(object)
        n == Len(chain)
    IN  IF NameFails(object.name) THEN [err |-> "NullName", name |-> <<>>]
        ELSE IF object.name \notin DUPLICATES THEN [err |-> "", name |-> object.name]
        ELSE IF NameFails(chain[n]) THEN [err |-> "NullName", name |-> <<>>]
        ELSE IF n < 2 THEN [err |-> "ModuleSubmodule", name |-> <<>>]
        ELSE IF NameFails(chain[n - 1]) THEN [err |-> "NullName", name |-> <<>>]
        ELSE [err |-> "", name |-> chain[n] \o <<"_">> \o chain[n - 1] \o <<"_">> \o object.name]

RECURSIVE JoinReversed(_)
JoinReversed(names) ==
    IF Len(names) = 1 THEN names[1]
    ELSE JoinReversed(Tail(names)) \o <<".">> \o names[1]

\* Object::full_name through helper::get_full_name: "{class} {outers.name}",
\* NoName when the class is null or a name of the chain does not resolve.
get_full_name(object) ==
    IF object.class_name = NullRef THEN NoName
    ELSE IF \E i \in 1..Len(OuterNames(object)) : NameFails(OuterNames(object)[i]) THEN NoName
    ELSE IF NameFails(object.class_name) THEN NoName
    ELSE object.class_name \o <<" ">> \o JoinReversed(OuterNames(object))

(***************************************************************************)
(* dump: write_structure                                                   *)
(***************************************************************************)

N_base == <<"b","a","s","e">>
N_Object == <<"O","b","j","e","c","t">>
N_Deref == <<"D","e","r","e","f">>
N_DerefMut == <<"D","e","r","e","f","M","u","t">>
N_deref == <<"d","e","r","e","f">>
N_deref_mut == <<"d","e","r","e","f","_","m","u","t">>

\* One "impl {trait} for {target} { fn {name}(..) -> .. { {body} } }".
ImplTraitFn(buf, indent, trait, target, assoc, fn) ==
    LET b1 == ind_ln(buf, indent, "impl_trait", target, trait, 0, 0)
        b2 == IF assoc # <<>> THEN line(b1, nest(indent), "type_target", assoc) ELSE b1
        b3 == ind_ln(b2, nest(indent), "fn", fn, <<>>, 0, 0)
        b4 == line(b3, nest(nest(indent)), "body", fn)
    IN  DropScope(DropScope(b4, nest(nest(indent))), nest(indent))

\* add_deref_impls
add_deref_impls(buf, indent, derived_name, base_name) ==
    ImplTraitFn(ImplTraitFn(buf, indent, N_Deref, derived_name, base_name, N_deref),
                indent, N_DerefMut, derived_name, <<>>, N_deref_mut)

\* add_object_deref_impl
add_object_deref_impl(buf, indent) ==
    ImplTraitFn(ImplTraitFn(buf, indent, N_Deref, N_Object,
                            <<"g","a","m","e",":",":">> \o N_Object, N_deref),
                indent, N_DerefMut, N_Object, <<>>, N_deref_mut)

\* What a writer of one object returns: the text, and the error or "".
Written(buf, err, mismatch, info, bitfields) ==
    [buf |-> buf, err |-> err, mismatch |-> mismatch, info |-> info,
     bitfields |-> bitfields]

IsRoot(structure) == structure.super.kind \in {"null", "self"}

\* The offset the layout walk starts at: the declared size of a usable super.
BaseOffset(structure) ==
    IF IsRoot(structure) THEN 0 ELSE structure.super.property_size

\* The struct block of write_structure: header, base field, the fields of
\* add_fields, the trailing padding, and the closer the guard writes when
\* it goes out of scope, also on the early return of an error.
StructBlock(buf, indent, structure, name) ==
    LET offset == BaseOffset(structure)
        Close(st) ==
            [st EXCEPT !.buf =
                DropScope(IF st.err = "" /\ st.offset < structure.property_size
                          THEN add_padding(st.buf, nest(indent), st.offset,
                                           structure.property_size - st.offset)
                          ELSE st.buf,
                          nest(indent))]
        Fields(b2) ==
            Close(add_fields(b2, nest(indent), offset, get_fields(structure, offset)))
        Base(b1) ==
            Fields(IF IsRoot(structure) THEN b1
                   ELSE emit_field(b1, nest(indent), N_base, structure.super.name,
                                   0, offset))
    IN  Base(line(line(buf, indent, "attr", <<>>), indent, "struct", name))

\* write_structure
write_structure(buf, indent, object) ==
    LET rd == resolve_duplicate(object)
        full_name == get_full_name(object)
        Derefs(b2) ==
            IF ~IsRoot(object)
            THEN add_deref_impls(b2, indent, rd.name, object.super.name)
            ELSE IF rd.name = N_Object THEN add_object_deref_impl(b2, indent)
            ELSE b2
        Rest(st) ==
            IF st.err # ""
            THEN Written(st.buf, st.err, st.mismatch, st.info, st.bitfields)
            ELSE Written(Derefs(BitfieldsEmit(st.buf, indent, st.bitfields, rd.name)),
                         "", 0, InfoErr(""), st.bitfields)
    IN  IF rd.err # "" THEN Written(buf, rd.err, 0, InfoErr(""), <<>>)
        ELSE IF NameFails(full_name) THEN Written(buf, "NullName", 0, InfoErr(""), <<>>)
        ELSE IF ~IsRoot(object) /\ NameFails(object.super.name)
             THEN Written(buf, "NullName", 0, InfoErr(""), <<>>)
        ELSE Rest(StructBlock(
                    ind_ln(buf, indent, "comment", full_name, <<>>,
                           (object.property_size - BaseOffset(object)),
                           object.property_size),
                    indent, object, rd.name))

(***************************************************************************)
(* dump: write_constant and write_enumeration                              *)
(***************************************************************************)

\* write_constant: "// {outer}_{name} = {value}", after the value converts
\* (value = NoName: the wide string is no valid string) and the outer and
\* both names resolve.
write_constant(buf, indent, object) ==
    IF object.value = NoName THEN Written(buf, "StringConversion", 0, InfoErr(""), <<>>)
    ELSE IF object.outers = <<>> THEN Written(buf, "ConstOuter", 0, InfoErr(""), <<>>)
    ELSE IF NameFails(object.outers[1]) \/ NameFails(object.name)
         THEN Written(buf, "NullName", 0, InfoErr(""), <<>>)
    ELSE Written(ind_ln(buf, indent, "const", object.outers[1] \o <<"_">> \o object.name,
                        object.value, 0, 0),
                 "", 0, InfoErr(""), <<>>)

RECURSIVE MatchingComponents(_, _)
\* common_prefix.iter().zip(variant.split('_')).take_while(equal).count()
MatchingComponents(cp, comps) ==
    IF cp = <<>> \/ comps = <<>> \/ Head(cp) # Head(comps) THEN 0
    ELSE 1 + MatchingComponents(Tail(cp), Tail(comps))

RECURSIVE CommonPrefix(_, _)
\* The common prefix after the variants given: all components of the first
\* variant, truncated to what each later variant still matches.
CommonPrefix(cp, variants) ==
    IF variants = <<>> THEN cp
    ELSE CommonPrefix(
             SubSeq(cp, 1, MatchingComponents(cp, SplitOn(Head(variants), {"_"}, <<>>))),
             Tail(variants))

RECURSIVE SumLen(_)
SumLen(comps) == IF comps = <<>> THEN 0 ELSE Len(Head(comps)) + SumLen(Tail(comps))

\* The prefix never shrinks: all of the first variant.
common_prefix_len_first(variants) ==
    Len(SplitOn(variants[1], {"_"}, <<>>)) + SumLen(SplitOn(variants[1], {"_"}, <<>>))

\* common_prefix_len: one underscore per component plus the components.
common_prefix_len(variants) ==
    LET cp == CommonPrefix(SplitOn(variants[1], {"_"}, <<>>), Tail(variants))
    IN  Len(cp) + SumLen(cp)

RECURSIVE UniqueNames(_, _)
\* get_unique_name over a sequence of names with one counts map.
UniqueNames(cnts, names) ==
    IF names = <<>> THEN <<>>
    ELSE <<get_unique_name(cnts, Head(names)).name>>
         \o UniqueNames(get_unique_name(cnts, Head(names)).counts, Tail(names))

N_MAX == <<"M","A","X">>
N_Self == <<"S","e","l","f">>

IsSuffix(p, s) == Len(p) <= Len(s) /\ SubSeq(s, Len(s) - Len(p) + 1, Len(s)) = p

IsDigit(c) == \E i \in 1..Len(Digits) : Digits[i] = c

\* The mutant of VariantDisplay: no special case for "enum name + MAX".
VariantDisplayNoTrim(variant, prefix_len, name) ==
    LET stripped == SubSeq(variant, prefix_len + 1, Len(variant))
    IN  IF prefix_len > Len(variant) THEN [panic |-> FALSE, name |-> to_camel_case(variant)]
        ELSE IF stripped = <<>> THEN [panic |-> TRUE, name |-> <<>>]
        ELSE IF IsDigit(stripped[1]) \/ stripped = N_Self
             THEN [panic |-> FALSE, name |-> to_camel_case(variant)]
        ELSE [panic |-> FALSE, name |-> to_camel_case(stripped)]

\* The display name of one variant: "Panic" when the stripped form is
\* empty (as_bytes()[0] is out of bounds), else the text passed to variant().
VariantDisplay(variant, prefix_len, name) ==
    LET stripped == SubSeq(variant, prefix_len + 1, Len(variant))
    IN  IF prefix_len > Len(variant) THEN [panic |-> FALSE, name |-> to_camel_case(variant)]
        ELSE IF stripped = <<>> THEN [panic |-> TRUE, name |-> <<>>]
        ELSE IF IsDigit(stripped[1]) \/ stripped = N_Self
             THEN [panic |-> FALSE, name |-> to_camel_case(variant)]
        ELSE IF IsPrefix(name, stripped) /\ IsSuffix(N_MAX, stripped)
             THEN [panic |-> FALSE,
                   name |-> to_camel_case(SubSeq(stripped, Len(name) + 1, Len(stripped)))]
        ELSE [panic |-> FALSE, name |-> to_camel_case(stripped)]

RECURSIVE VariantsLoop(_, _, _, _, _)
\* The loop over the deduplicated variants, up to a panic.
VariantsLoop(buf, indent, variants, prefix_len, name) ==
    IF variants = <<>> THEN [buf |-> buf, panic |-> FALSE]
    ELSE LET d == VariantDisplay(Head(variants), prefix_len, name)
         IN  IF d.panic THEN [buf |-> buf, panic |-> TRUE]
             ELSE VariantsLoop(line(buf, indent, "variant", d.name), indent,
                               Tail(variants), prefix_len, name)

\* write_enumeration
write_enumeration(buf, indent, object) ==
    LET rd == resolve_duplicate(object)
        b1 == line(line(buf, indent, "attr", <<>>), indent, "enum", rd.name)
        vs == VariantsLoop(b1, nest(indent), UniqueNames([n \in {} |-> 0], object.variants),
                           common_prefix_len(object.variants), rd.name)
    IN  IF \E i \in 1..Len(object.variants) : object.variants[i] = NoName
        THEN Written(buf, "BadVariant", 0, InfoErr(""), <<>>)
        ELSE IF object.variants = <<>> THEN Written(buf, "", 0, InfoErr(""), <<>>)
        ELSE IF rd.err # "" THEN Written(buf, rd.err, 0, InfoErr(""), <<>>)
        ELSE Written(DropScope(vs.buf, nest(indent)),
                     IF vs.panic THEN "Panic" ELSE "", 0, InfoErr(""), <<>>)

(***************************************************************************)
(* dump: write_class, add_methods, add_method                              *)
(***************************************************************************)

RECURSIVE ParametersLoop(_, _, _)
\* The loop of Parameters::try_from: the parameters kept, with their
\* deduplicated names and types, up to the first error.
ParametersLoop(children, cnts, acc) ==
    IF children = <<>> THEN [err |-> "", params |-> acc]
    ELSE LET p == Head(children)
             Typ(t) == IF t = T_u32 THEN T_bool ELSE t
             Keep(unique, info) ==
                 IF NameFails(p.name) THEN [err |-> "NullName", params |-> acc]
                 ELSE IF info.err # "" THEN [err |-> info.err, params |-> acc]
                 ELSE ParametersLoop(Tail(children), unique.counts,
                          Append(acc, [p EXCEPT !.name = unique.name,
                                                !.ref = Typ(into_typed_comment(info))]))
         IN  IF p.element_size = 0 \/ p.param = "None"
             THEN ParametersLoop(Tail(children), cnts, acc)
             ELSE Keep(get_unique_name(cnts, scrub_reserved_name(p.name)),
                       PropertyInfo(p))

\* Parameters::try_from: the kept parameters sorted by property_compare.
Parameters(method) ==
    LET Sorted(r) == [err |-> r.err, params |-> SortBy(<<>>, r.params)]
    IN  Sorted(ParametersLoop(method.params, [n \in {} |-> 0], <<>>))

RECURSIVE ParamLines(_, _, _, _)
\* One line per parameter: the fields of Parameters or of its initialiser.
ParamLines(buf, indent, kind, params) ==
    IF params = <<>> THEN buf
    ELSE ParamLines(ind_ln(buf, indent, kind, Head(params).name, Head(params).ref, 0, 0),
                    indent, kind, Tail(params))

Outputs(params) == SelectSeq(params, LAMBDA p : p.param = "Output")

\* The if-branch of the wrapper: the Parameters struct, its initialiser,
\* the flags saved, the dispatch, the flags restored, the outputs.
IfBranch(buf, indent, method, params) ==
    LET Some(b7) ==
            IF Outputs(params) = <<>> THEN b7
            ELSE ind_ln(b7, indent, "some", <<>>, <<>>, Len(Outputs(params)), 0)
        Flags(b5) ==
            Some(line(line(IF method.native THEN line(b5, indent, "native_flag", <<>>)
                           ELSE b5,
                           indent, "process_event", <<>>),
                      indent, "restore_flags", <<>>))
        b1 == line(line(buf, indent, "attr", <<>>), indent, "struct", <<>>)
        b2 == DropScope(ParamLines(b1, nest(indent), "field", params), nest(indent))
        b3 == line(b2, indent, "block", <<>>)
        b4 == DropScope(ParamLines(b3, nest(indent), "init", params), nest(indent))
    IN  Flags(line(b4, indent, "old_flags", <<>>))

\* add_method: the wrapper function of one method.  The indent of the
\* if-block is raised for the ".find_mut" lines, and a failing
\* get_full_name returns while it is raised.
add_method(buf, indent, cnts, method) ==
    LET full_name == get_full_name(method)
        if_indent == nest(nest(indent))
        None(b4, ps) ==
            IF Outputs(ps.params) # <<>> THEN line(b4, if_indent, "none", <<>>) ELSE b4
        Else(b3, unique, ps) ==
            IF NameFails(full_name)
            THEN [buf |-> DropScope(DropScope(b3, nest(if_indent)), nest(indent)),
                  err |-> "NullName", counts |-> unique.counts]
            ELSE [buf |-> DropScope(DropScope(
                              None(line(line(b3, nest(if_indent), "find_mut", full_name),
                                        nest(if_indent), "map", <<>>), ps),
                              if_indent), nest(indent)),
                  err |-> "", counts |-> unique.counts]
        Body(unique, ps) ==
            IF ps.err # "" THEN [buf |-> buf, err |-> ps.err, counts |-> unique.counts]
            ELSE Else(line(line(IfBranch(line(line(ind_ln(buf, indent, "fn",
                                                          unique.name, <<>>, 0, 0),
                                                   nest(indent), "static", <<>>),
                                              nest(indent), "if", <<>>),
                                         if_indent, method, ps.params),
                                unnest(if_indent), "else", <<>>),
                           if_indent, "find", <<>>),
                      unique, ps)
    IN  IF NameFails(method.name) THEN [buf |-> buf, err |-> "NullName", counts |-> cnts]
        ELSE Body(get_unique_name(cnts, method.name), Parameters(method))

RECURSIVE MethodsLoop(_, _, _, _)
MethodsLoop(buf, indent, cnts, methods) ==
    IF methods = <<>> THEN [buf |-> buf, err |-> ""]
    ELSE LET After(m) ==
                 IF m.err # "" THEN [buf |-> m.buf, err |-> m.err]
                 ELSE MethodsLoop(m.buf, indent, m.counts, Tail(methods))
         IN  After(add_method(buf, indent, cnts, Head(methods)))

\* get_methods
get_methods(class) == SelectSeq(class.children, LAMBDA p : Is(p, "Function"))

\* add_methods: one impl block with the wrapper of every method.
add_methods(buf, indent, class) ==
    LET rd == resolve_duplicate(class)
        Close(ms) == Written(DropScope(ms.buf, nest(indent)), ms.err, 0, InfoErr(""), <<>>)
    IN  IF rd.err # "" THEN Written(buf, rd.err, 0, InfoErr(""), <<>>)
        ELSE Close(MethodsLoop(line(buf, indent, "impl", rd.name), nest(indent),
                               [n \in {} |-> 0], get_methods(class)))

\* write_class
write_class(buf, indent, object) ==
    LET Methods(ws) ==
            IF ws.err # "" THEN ws
            ELSE [add_methods(ws.buf, indent, object) EXCEPT !.bitfields = ws.bitfields]
    IN  Methods(write_structure(buf, indent, object))

\* write_object: the first marker the object is an instance of decides.
write_object(buf, indent, object) ==
    IF Is(object, "Const") THEN write_constant(buf, indent, object)
    ELSE IF Is(object, "Enum") THEN write_enumeration(buf, indent, object)
    ELSE IF Is(object, "ScriptStruct") THEN write_structure(buf, indent, object)
    ELSE IF Is(object, "Class") THEN write_class(buf, indent, object)
    ELSE Written(buf, "", 0, InfoErr(""), <<>>)

(***************************************************************************)
(* dump: the driver sdk()                                                  *)
(***************************************************************************)

\* The marker classes looked up by full name, in the order of
\* find_static_classes and property_info::find_static_classes.
StaticClasses ==
    << "Class", "Const", "Enum", "Function", "ScriptStruct",
       "ArrayProperty", "BoolProperty", "ByteProperty", "ClassProperty",
       "DelegateProperty", "FloatProperty", "IntProperty", "InterfaceProperty",
       "MapProperty", "NameProperty", "ObjectProperty", "StrProperty",
       "StructProperty" >>

\* A lookup that finds every marker.
find_any(found, marker) == ""

\* helper::find / property_info's find: the lookup of "Class Core.{marker}"
\* in the object table, "" when an object of that full name is there.
find(found, marker) ==
    IF marker \in found THEN ""
    ELSE "StaticClassNotFound(Class Core." \o marker \o ")"

\* find_static_classes: "" or the error of the first lookup that fails.
find_static_classes(found) ==
    IF \E i \in 1..Len(StaticClasses) : find(found, StaticClasses[i]) # ""
    THEN find(found, StaticClasses[
             CHOOSE i \in 1..Len(StaticClasses) :
                 /\ find(found, StaticClasses[i]) # ""
                 /\ \A j \in 1..(i - 1) : find(found, StaticClasses[j]) = ""])
    ELSE ""

\* add_crate_attributes and add_imports: one line() call each.
Preamble(buf, indent) ==
    line(line(buf, indent, "crate_attributes", <<>>), indent, "imports", <<>>)

\* The entry of the log for one call of write_object.
LogEntry(index, before, w) ==
    [index |-> index, err |-> w.err, mismatch |-> w.mismatch, info |-> w.info,
     bitfields |-> w.bitfields,
     lines |-> SubSeq(w.buf, Len(before) + 1, Len(w.buf))]

\* An open that keeps what the file held.
FileCreateAppend(content) == content

\* File::create: the file is created, or truncated when it exists.
FileCreate(content) == <<>>

\* sdk() up to the loop: the marker lookups, the creation of the output
\* file (created = FALSE: File::create fails) and the preamble.
Setup ==
    /\ result = "setup"
    /\ \E created \in BOOLEAN :
          IF find_static_classes(statics) # ""
          THEN result' = find_static_classes(statics) /\ sink' = sink
          ELSE IF ~created THEN result' = "Io" /\ sink' = sink
          ELSE result' = "running" /\ sink' = Preamble(FileCreate(sink), 0)
    /\ UNCHANGED <<statics, objects, cursor, log>>
    /\ UNCHANGED <<nameVars, bitVars, genVars, prior, callVars>>

\* One iteration of "for object in (*GLOBAL_OBJECTS).iter()": the call
\* write_object(&mut scope, object)?, whose error is the result of sdk().
WriteObject ==
    /\ result = "running"
    /\ cursor <= Len(objects)
    /\ LET w == write_object(sink, 0, objects[cursor])
       IN  /\ sink' = w.buf
           /\ log' = Append(log, LogEntry(cursor, sink, w))
           /\ IF w.err = "" THEN cursor' = cursor + 1 /\ result' = result
              ELSE cursor' = cursor /\ result' = w.err
    /\ UNCHANGED <<statics, objects>>
    /\ UNCHANGED <<nameVars, bitVars, genVars, prior, callVars>>

\* The loop is over: Ok(()).
Return ==
    /\ result = "running"
    /\ cursor > Len(objects)
    /\ result' = "Ok"
    /\ UNCHANGED <<statics, objects, cursor, sink, log>>
    /\ UNCHANGED <<nameVars, bitVars, genVars, prior, callVars>>

NextSdk == Setup \/ WriteObject \/ Return

(***************************************************************************)
(* The reflection graphs the runs start from                               *)
(***************************************************************************)

\* The longest children chain of a struct of the layout runs.
MaxChildren == 3
\* The longest object table of the driver runs.
MaxObjects == 3
\* The number of booleans of the struct that overfills one backing value.
MaxGroup == 33

NoSuper == [kind |-> "null", name |-> <<>>, property_size |-> 0]
SelfSuper == [kind |-> "self", name |-> <<>>, property_size |-> 0]
BaseSuper(name, size) == [kind |-> "base", name |-> name, property_size |-> size]

N_Core == <<"C","o","r","e">>
N_Base == <<"B","a","s","e">>

\* An object of the table: its runtime-class chain, the name of its class,
\* its own name and the names of its outers, innermost first.
Obj(chain, class_name, name, outers) ==
    [chain |-> chain, class_name |-> class_name, name |-> name, outers |-> outers,
     super |-> NoSuper, property_size |-> 0, children |-> <<>>,
     variants |-> <<>>, value |-> <<>>]

StructObj(name, super, size, children) ==
    [Obj(<<"ScriptStruct", "Struct", "Field", "Object">>,
         <<"S","c","r","i","p","t","S","t","r","u","c","t">>, name, <<N_Core>>)
     EXCEPT !.super = super, !.property_size = size, !.children = children]

ClassObj(name, super, size, children) ==
    [Obj(<<"Class", "State", "Struct", "Field", "Object">>,
         <<"C","l","a","s","s">>, name, <<N_Core>>)
     EXCEPT !.super = super, !.property_size = size, !.children = children]

EnumObj(name, variants) ==
    [Obj(<<"Enum", "Field", "Object">>, <<"E","n","u","m">>, name, <<N_Base, N_Core>>)
     EXCEPT !.variants = variants]

ConstObj(name, outers, value) ==
    [Obj(<<"Const", "Field", "Object">>, <<"C","o","n","s","t">>, name, outers)
     EXCEPT !.value = value]

IntProp(name, offset, element_size, array_dim) ==
    Prop(PropertyChain("IntProperty"), name, offset, element_size, array_dim, 0)

BoolProp(name, offset, bitmask) ==
    Prop(PropertyChain("BoolProperty"), name, offset, BoolSize, 1, bitmask)

\* The properties the structs of the layout runs are made of: fields with
\* and without gaps, an array, a repeated name, booleans of two offsets,
\* element sizes above and below the classified size, an overlap, an
\* element of no extent.
PropMenu ==
    << IntProp(<<"X">>, 16, 4, 1),
       Prop(PropertyChain("ByteProperty"), <<"X">>, 20, 1, 1, 0),
       Prop(PropertyChain("FloatProperty"), <<"Z">>, 20, 4, 2, 0),
       BoolProp(<<"b","A">>, 16, 1),
       BoolProp(<<"b","B">>, 16, 2),
       BoolProp(<<"b","D">>, 20, 1),
       IntProp(<<"W">>, 24, 8, 1),
       IntProp(<<"V">>, 20, 2, 1),
       IntProp(<<"N">>, 18, 4, 1),
       IntProp(<<"E">>, 24, 4, 0) >>

\* The children chains: each node of the menu at most once, any order.
Chains ==
    UNION { { [i \in 1..n |-> PropMenu[f[i]]] :
                f \in { g \in [1..n -> 1..Len(PropMenu)] :
                          \A a, b \in 1..n : a # b => g[a] # g[b] } } :
            n \in 0..MaxChildren }

\* Scenario B: three booleans at 0x10 in a struct of size 0x14.
ScenarioB ==
    StructObj(<<"B">>, NoSuper, 20,
              << BoolProp(<<"b","C">>, 16, 4), BoolProp(<<"b","A">>, 16, 1),
                 BoolProp(<<"b","B">>, 16, 2) >>)

RECURSIVE Pow2(_)
Pow2(n) == IF n = 0 THEN 1 ELSE 2 * Pow2(n - 1)

\* A struct with n booleans at one offset, bitmask 1 << (i mod 16).
BoolRun(n) ==
    StructObj(<<"R">>, BaseSuper(N_Base, 16), 20,
              [i \in 1..n |-> BoolProp(<<"b","F">> \o Dec(i), 16, Pow2((i - 1) % 16))])

LayoutStructs ==
    {ScenarioB, BoolRun(MaxGroup)} \cup
    { StructObj(<<"S">>, super, size, children) :
        super \in {NoSuper, BaseSuper(N_Base, 16)}, size \in {24, 28},
        children \in Chains }

AllStatics == {StaticClasses[i] : i \in 1..Len(StaticClasses)}

\* A method: a Function child with its parameters.
Method(name, outers, params, native) ==
    [Prop(<<"Function", "Struct", "Field", "Object">>, name, 0, 0, 0, 0)
     EXCEPT !.params = params, !.native = native, !.outers = outers,
            !.class_name = <<"F","u","n","c","t","i","o","n">>]

N_Actor == <<"A","c","t","o","r">>

\* The objects the tables of the driver runs are made of: a struct, an
\* enum, a constant and a class that are reconstructed, an object of no
\* dumped kind, and objects that fail with a size mismatch after a field,
\* a missing name, an unknown property kind, a null class reference and
\* an unreadable variant.
ObjectMenu ==
    << StructObj(<<"S">>, BaseSuper(N_Base, 16), 24,
                 << IntProp(<<"X">>, 20, 4, 1), BoolProp(<<"b","A">>, 16, 1) >>),
       StructObj(<<"M">>, BaseSuper(N_Base, 16), 28,
                 << IntProp(<<"X">>, 16, 4, 1), IntProp(<<"W">>, 20, 8, 1) >>),
       StructObj(NoName, NoSuper, 4, << IntProp(<<"X">>, 0, 4, 1) >>),
       StructObj(<<"U">>, NoSuper, 4,
                 << Prop(PropertyChain("PointerProperty"), <<"X">>, 0, 4, 1, 0) >>),
       StructObj(<<"O">>, NoSuper, 8,
                 << IntProp(<<"X">>, 0, 4, 1),
                    Prop(PropertyChain("ObjectProperty"), <<"Y">>, 4, 4, 1, 0) >>),
       EnumObj(<<"E","K">>, << <<"K","_","A">>, <<"K","_","B">>, <<"K","_","M","A","X">> >>),
       EnumObj(<<"E","V">>, << <<"V","_","A">>, NoName >>),
       ConstObj(<<"K">>, <<N_Actor, N_Core>>, <<"1">>),
       ClassObj(N_Actor, BaseSuper(N_Object, 16), 20,
                << IntProp(<<"X">>, 16, 4, 1),
                   Method(<<"T","i","c","k">>, <<N_Actor, N_Core>>,
                          << [IntProp(<<"D">>, 0, 4, 1) EXCEPT !.param = "Input"],
                             [BoolProp(<<"R">>, 4, 1) EXCEPT !.param = "Output"] >>,
                          TRUE) >>),
       Obj(<<"Package", "Object">>, <<"P","a","c","k","a","g","e">>, N_Core, <<>>) >>

\* The object tables: each object of the menu at most once, any order.
Tables ==
    UNION { { [i \in 1..n |-> ObjectMenu[f[i]]] :
                f \in { g \in [1..n -> 1..Len(ObjectMenu)] :
                          \A a, b \in 1..n : a # b => g[a] # g[b] } } :
            n \in 1..MaxObjects }

\* What the variables of the other components hold while sdk() runs.
IdleNames == counts = [n \in {} |-> 0] /\ raws = <<>> /\ emitted = <<>>
IdleBits == backing = <<>> /\ prevb = <<>> /\ lastop = <<>> /\ nops = 0
IdleGen == buffer = <<>> /\ scopes = <<>> /\ roots = <<>>
IdleCall == FUNCTION = "None" /\ flags = 0 /\ called = <<>>
IdleSdk ==
    /\ prior = <<>> /\ IdleCall
    /\ statics = {} /\ objects = <<>> /\ cursor = 1
    /\ sink = <<>> /\ result = "idle" /\ log = <<>>

\* sdk() on a table that holds one struct.
InitLayout ==
    /\ statics = AllStatics
    /\ objects \in { <<s>> : s \in LayoutStructs }
    /\ cursor = 1 /\ sink = <<>> /\ result = "setup" /\ log = <<>>
    /\ IdleNames /\ IdleBits /\ IdleGen /\ prior = <<>> /\ IdleCall

SpecLayout == InitLayout /\ [][NextSdk]_vars

(***************************************************************************)
(* Properties of the struct layout (SpecLayout)                            *)
(***************************************************************************)

\* The struct a log entry is about.
Subject(e) == objects[e.index]

Entries == {log[i] : i \in 1..Len(log)}

\* The entries of structs and classes.
StructEntries ==
    {e \in Entries : Is(Subject(e), "ScriptStruct") \/ Is(Subject(e), "Class")}

\* The storage properties of a struct: its sized, non-definition children.
Storage(structure) == SelectSeq(structure.children, LAMBDA p : IsField(p, 0))

Extent(p) == p.element_size * p.array_dim

SharedSlot(p, q) ==
    /\ Is(p, "BoolProperty") /\ Is(q, "BoolProperty")
    /\ p.offset = q.offset /\ Extent(p) = BoolSize /\ Extent(q) = BoolSize

\* A well-formed struct: every storage property has an extent of at least
\* one byte inside [base_offset, total_size), and two of them overlap only
\* as booleans of one 4-byte slot.
WellFormed(structure) ==
    LET ps == Storage(structure) IN
    /\ BaseOffset(structure) <= structure.property_size
    /\ \A i \in 1..Len(ps) :
          /\ ps[i].array_dim >= 1
          /\ ps[i].offset >= BaseOffset(structure)
          /\ ps[i].offset + Extent(ps[i]) <= structure.property_size
    /\ \A i, j \in 1..Len(ps) :
          i < j => \/ ps[i].offset + Extent(ps[i]) <= ps[j].offset
                   \/ ps[j].offset + Extent(ps[j]) <= ps[i].offset
                   \/ SharedSlot(ps[i], ps[j])

\* The "// offset(length)" comments of an entry, in the order written,
\* without the one of the base field.
Spans(e) ==
    LET all == SelectSeq(e.lines, LAMBDA l : l.kind = "span")
    IN  IF IsRoot(Subject(e)) THEN all ELSE Tail(all)

Covers(spans, from, to) ==
    /\ spans = <<>> => from = to
    /\ spans # <<>> =>
          /\ spans[1].off = from
          /\ \A i \in 1..(Len(spans) - 1) : spans[i + 1].off = spans[i].off + spans[i].len
          /\ spans[Len(spans)].off + spans[Len(spans)].len = to

Walk(structure) == get_fields(structure, BaseOffset(structure))

\* A property the walk passes without an error.
Passes(p) ==
    /\ PropertyInfo(p).err = ""
    /\ PropertyInfo(p).size * p.array_dim = Extent(p)
    /\ ~NameFails(p.name)

\* The index of the property of the walk whose classified size times
\* array_dim differs from element_size times array_dim, when every
\* property before it passes.
Reached(structure) ==
    LET walk == Walk(structure) IN
    {i \in 1..Len(walk) :
        /\ \A j \in 1..(i - 1) : Passes(walk[j])
        /\ PropertyInfo(walk[i]).err = ""
        /\ PropertyInfo(walk[i]).size * walk[i].array_dim # Extent(walk[i])}

\* A span comment of the property followed by a field of its name.
HasFieldOf(lines, p) ==
    \E i \in 1..(Len(lines) - 1) :
        /\ lines[i].kind = "span" /\ lines[i].off = p.offset /\ lines[i].len = Extent(p)
        /\ lines[i + 1].kind = "field"
        /\ IsPrefix(N_pub \o scrub_reserved_name(p.name), lines[i + 1].name)

\* C5: when the walk of add_fields reaches a property whose classified
\* size times array_dim differs from element_size times array_dim, in
\* either direction, the struct fails with PropertySizeMismatch carrying
\* the signed difference and the classified info, and no span and field
\* of that property is written; the error arises in no other way.
C5_SizeMismatch ==
    \A e \in StructEntries :
        e.lines # <<>> =>
            /\ \A i \in Reached(Subject(e)) :
                  LET p == Walk(Subject(e))[i] IN
                  /\ e.err = "PropertySizeMismatch"
                  /\ e.mismatch = Extent(p) - PropertyInfo(p).size * p.array_dim
                  /\ e.info = PropertyInfo(p)
                  /\ ~HasFieldOf(e.lines, p)
            /\ e.err = "PropertySizeMismatch" => Reached(Subject(e)) # {}

\* A struct that failed on an element size below the classified size,
\* after a field was written.
C5_Witness ==
    \E e \in StructEntries :
        /\ e.err = "PropertySizeMismatch" /\ e.mismatch < 0
        /\ \E i \in 1..Len(e.lines) : e.lines[i].kind = "field"

\* The booleans of a struct at one offset, in table order.
BoolsAt(structure, offset) ==
    SelectSeq(Storage(structure),
              LAMBDA p : Is(p, "BoolProperty") /\ p.offset = offset)

\* The place of the i-th of these booleans in ascending bitmask order,
\* booleans of one bitmask in table order.
Rank(bools, i) ==
    Cardinality({j \in 1..Len(bools) :
                    \/ bools[j].bitmask < bools[i].bitmask
                    \/ bools[j].bitmask = bools[i].bitmask /\ j < i})

\* The bit arguments of the calls of one helper on one backing field.
BitArgs(lines, helper, backing_name) ==
    LET calls == SelectSeq(lines, LAMBDA l : l.kind = helper /\ l.name = backing_name)
    IN  [i \in 1..Len(calls) |-> calls[i].off]

\* The getter of the boolean at the bit: the comment naming the raw
\* property, the function, the call of is_bit_set with the bit.
HasGetter(lines, backing_name, raw, bit) ==
    \E i \in 1..(Len(lines) - 2) :
        /\ lines[i].kind = "comment" /\ lines[i].name = N_get_c \o raw
        /\ lines[i + 1].kind = "fn"
        /\ lines[i + 2].kind = "is_bit_set" /\ lines[i + 2].name = backing_name
        /\ lines[i + 2].off = bit

\* The group of the offset is the k-th group, it is the only one of the
\* offset, one 4-byte span is written at the offset and the next span
\* starts 4 bytes later, and the booleans hold bits 0..n-1 in ascending
\* bitmask order.
OneGroup(e, offset, k) ==
    LET bools == BoolsAt(Subject(e), offset)
        n == Len(bools)
        spans == Spans(e)
    IN  /\ e.bitfields[k].offset = offset
        /\ \A m \in 1..Len(e.bitfields) : e.bitfields[m].offset = offset => m = k
        /\ Len(e.bitfields[k].fields) = n
        /\ \A i \in 1..n : e.bitfields[k].fields[Rank(bools, i) + 1] = bools[i].name
        /\ Cardinality({i \in 1..Len(spans) : spans[i].off = offset}) = 1
        /\ \A i \in 1..Len(spans) :
              spans[i].off = offset =>
                  /\ spans[i].len = BoolSize
                  /\ i < Len(spans) => spans[i + 1].off = offset + BoolSize
                  /\ i = Len(spans) => Subject(e).property_size = offset + BoolSize
        /\ BitArgs(e.lines, "is_bit_set", Identifier(FIELD, k - 1)) = [i \in 1..n |-> i - 1]
        /\ BitArgs(e.lines, "set_bit", Identifier(FIELD, k - 1)) = [i \in 1..n |-> i - 1]
        /\ \A i \in 1..n :
              HasGetter(e.lines, Identifier(FIELD, k - 1), bools[i].name, Rank(bools, i))

C9_BitInRange ==
    \A e \in StructEntries :
        e.err = "" =>
            \A i \in 1..Len(e.lines) :
                e.lines[i].kind \in {"is_bit_set", "set_bit"} => e.lines[i].off \in 0..31

\* sdk() on a table of several objects, with and without a marker class
\* missing from the table.
InitDriver ==
    /\ statics \in {AllStatics, AllStatics \ {"MapProperty"}}
    /\ objects \in Tables
    /\ cursor = 1 /\ sink = <<>> /\ result = "setup" /\ log = <<>>
    /\ IdleNames /\ IdleBits /\ IdleGen /\ prior = <<>> /\ IdleCall

SpecDriver == InitDriver /\ [][NextSdk]_vars

(***************************************************************************)
(* Properties of the driver (SpecDriver)                                   *)
(***************************************************************************)

\* The errors that are about one object of the table.
EntityErrors ==
    {"NullName", "UnknownProperty", "NullArrayInner", "NullMetaClass",
     "NullInterfaceClass", "NullMapKeyProperty", "NullMapValueProperty",
     "NullPropertyClass", "NullPropertyStruct", "PropertySizeMismatch",
     "BadVariant"}

\* C2: an entity-scoped error aborts only its object: when sdk() is over,
\* with Ok or after objects failed with entity-scoped errors, every object
\* of the table has been processed, in table order.
C2_DriverContinues ==
    result \in EntityErrors \cup {"Ok"} =>
        /\ Len(log) = Len(objects)
        /\ \A i \in 1..Len(log) : log[i].index = i

\* C3: an object that failed with an entity-scoped error has no text in
\* the artifact: no header comment, no header, no field, no closer.
C3_FailedOutputAbsent ==
    \A e \in Entries : e.err \in EntityErrors => e.lines = <<>>

(***************************************************************************)
(* Name deduplication of one scope (SpecNames)                             *)
(***************************************************************************)

\* The number of names passed through one counts map.
MaxNames == 4

\* Raw names, one of which looks like a suffixed other.
RawNames == { <<"X">>, <<"X","_","1">>, <<"Y">> }

InitNames ==
    /\ counts = [n \in {} |-> 0] /\ raws = <<>> /\ emitted = <<>>
    /\ IdleSdk /\ IdleBits /\ IdleGen

\* One call get_unique_name(&mut name_counts, name) of a scope.
GetUniqueName ==
    /\ Len(raws) < MaxNames
    /\ \E name \in RawNames :
          /\ counts' = get_unique_name(counts, name).counts
          /\ emitted' = Append(emitted, get_unique_name(counts, name).name)
          /\ raws' = Append(raws, name)
    /\ UNCHANGED <<sdkVars, bitVars, genVars, prior, callVars>>

NextNames == GetUniqueName

SpecNames == InitNames /\ [][NextNames]_vars

\* How often the i-th raw name came before.
Earlier(i) == Cardinality({j \in 1..(i - 1) : raws[j] = raws[i]})

\* C6: of the raw names passed through one counts map, the first
\* occurrence of a name is emitted bare and its k-th later occurrence as
\* name_k, k counting the earlier occurrences in the order met.
C6_SuffixByEncounter ==
    /\ Len(emitted) = Len(raws)
    /\ \A i \in 1..Len(raws) :
          emitted[i] = IF Earlier(i) = 0 THEN raws[i]
                       ELSE raws[i] \o <<"_">> \o Dec(Earlier(i))

\* A name met three times, after a name that sorts behind it.
C6_Witness ==
    /\ Len(raws) = 4 /\ raws[1] = <<"Y">>
    /\ raws[2] = <<"X">> /\ raws[3] = <<"X">> /\ raws[4] = <<"X">>
    /\ emitted[4] = <<"X","_","2">>

\* C7: the identifiers emitted in one scope are pairwise distinct, for
\* every sequence of raw names.
C7_Distinct ==
    \A i, j \in 1..Len(emitted) : i # j => emitted[i] # emitted[j]

(***************************************************************************)
(* hook::bitfield: the runtime bit helpers (SpecBits)                      *)
(***************************************************************************)

\* The width of the backing value, u32.
Width == 32

\* The number of set_bit calls of one run.
MaxOps == 1

\* 1 << bit, for a bit below the width.
Mask(bit) == [j \in 1..Width |-> j = bit + 1]

\* a & b, a | b and !a on u32.
BitAnd(a, b) == [j \in 1..Width |-> a[j] /\ b[j]]
BitOr(a, b) == [j \in 1..Width |-> a[j] \/ b[j]]
BitNot(a) == [j \in 1..Width |-> ~a[j]]

\* is_bit_set
is_bit_set(bitfield, bit) == BitAnd(bitfield, Mask(bit)) = Mask(bit)

\* The mutant of set_bit: the mask is not inverted when the bit is cleared.
set_bit_mask_kept(bitfield, bit, value) ==
    IF value THEN BitOr(bitfield, Mask(bit)) ELSE BitAnd(bitfield, Mask(bit))

\* set_bit
set_bit(bitfield, bit, value) ==
    IF value THEN BitOr(bitfield, Mask(bit)) ELSE BitAnd(bitfield, BitNot(Mask(bit)))

\* Backing values the runs start from: 0, 0xffffffff, 0x55555555, 0x80000001.
Seeds ==
    { [j \in 1..Width |-> FALSE], [j \in 1..Width |-> TRUE],
      [j \in 1..Width |-> j % 2 = 1], [j \in 1..Width |-> j \in {1, Width}] }

InitBits ==
    /\ backing \in Seeds /\ prevb = backing /\ lastop = <<>> /\ nops = 0
    /\ IdleSdk /\ IdleNames /\ IdleGen

\* One call set_bit(&mut backing, bit, value) of a synthesized setter.
SetBit ==
    /\ nops < MaxOps
    /\ \E bit \in 0..(Width - 1), value \in BOOLEAN :
          /\ backing' = set_bit(backing, bit, value)
          /\ lastop' = <<bit, value>>
    /\ prevb' = backing
    /\ nops' = nops + 1
    /\ UNCHANGED <<sdkVars, nameVars, genVars, prior, callVars>>

NextBits == SetBit

SpecBits == InitBits /\ [][NextBits]_vars

\* The value after the bit is set true and then false.
TrueThenFalse(bitfield, bit) == set_bit(set_bit(bitfield, bit, TRUE), bit, FALSE)

\* C10: after set_bit(b, i, v), is_bit_set at bit i returns v and at every
\* other bit j what it returned before; and setting bit i of the value
\* true and then false leaves every other bit as it was.
C10_SetBitAlgebra ==
    lastop # <<>> =>
        /\ is_bit_set(backing, lastop[1]) = lastop[2]
        /\ ~is_bit_set(TrueThenFalse(backing, lastop[1]), lastop[1])
        /\ \A j \in 0..(Width - 1) :
              j # lastop[1] =>
                  /\ is_bit_set(backing, j) = is_bit_set(prevb, j)
                  /\ is_bit_set(TrueThenFalse(backing, lastop[1]), j)
                         = is_bit_set(backing, j)

\* Bit 31 of a value with other bits set was cleared.
C10_Witness ==
    /\ nops = 1 /\ lastop = <<31, FALSE>>
    /\ is_bit_set(prevb, 31) /\ ~is_bit_set(backing, 31)
    /\ is_bit_set(backing, 0) /\ ~is_bit_set(backing, 7)

(***************************************************************************)
(* genial: the scope objects (SpecGen)                                     *)
(***************************************************************************)

\* The deepest nesting of scope objects under the root Scope.
MaxDepth == 3
\* The most lines one run writes.
MaxLines == 6

\* A scope object: its kind and the indent of its writer; raised while its
\* user stands between indent() and undent().
ScopeObj(kind, indent) == [kind |-> kind, indent |-> indent, raised |-> FALSE]

\* The record kept of one root Scope: the sink when Scope::new took the
\* writer, whether anything was done through the Scope, and the sink when
\* the Scope was released (the sink at its creation while it lives).
Root(before) == [before |-> before, used |-> FALSE, after |-> before]

\* An operation was made through the live root Scope or a scope under it.
Used(rs) == IF rs = <<>> THEN rs ELSE [rs EXCEPT ![Len(rs)].used = TRUE]

\* Scope::new over Writer::from: the root, which writes no closer.
InitGen ==
    /\ buffer = <<>> /\ scopes = <<ScopeObj("scope", 0)>>
    /\ roots = <<Root(<<>>)>>
    /\ IdleSdk /\ IdleNames /\ IdleBits

\* The innermost scope object, the only one the borrows leave usable.
Top == scopes[Len(scopes)]

CanOpen == Len(scopes) <= MaxDepth /\ Len(buffer) < MaxLines

\* Gen::structure, Gen::enumeration, Gen::imp and Gen::imp_trait, which
\* Scope, Function and IfBlock implement: the header at the indent of the
\* parent, the child's writer nested.
OpenGen ==
    /\ CanOpen
    /\ Top.kind \in {"scope", "fn", "if"}
    /\ \E kind \in {"struct", "enum", "impl"} :
          /\ buffer' = line(buffer, Top.indent, kind, <<>>)
          /\ scopes' = Append(scopes, ScopeObj(kind, nest(Top.indent)))
    /\ roots' = Used(roots)
    /\ UNCHANGED <<sdkVars, nameVars, bitVars, prior, callVars>>

\* GenFunction::function, function_args and function_args_ret, which
\* Scope, Function, IfBlock and Impl implement.
OpenFunction ==
    /\ CanOpen
    /\ Top.kind \in {"scope", "fn", "if", "impl"}
    /\ buffer' = line(buffer, Top.indent, "fn", <<>>)
    /\ scopes' = Append(scopes, ScopeObj("fn", nest(Top.indent)))
    /\ roots' = Used(roots)
    /\ UNCHANGED <<sdkVars, nameVars, bitVars, prior, callVars>>

\* Function::if_block
OpenIfBlock ==
    /\ CanOpen
    /\ Top.kind = "fn"
    /\ buffer' = line(buffer, Top.indent, "if", <<>>)
    /\ scopes' = Append(scopes, ScopeObj("if", nest(Top.indent)))
    /\ roots' = Used(roots)
    /\ UNCHANGED <<sdkVars, nameVars, bitVars, prior, callVars>>

\* WriterWrapper::line and put of any scope object, Structure::field and
\* Enumeration::variant: text at the indent of the writer.
Content ==
    /\ Len(buffer) < MaxLines
    /\ \E kind \in {"line", "put"} \cup
                   (IF Top.kind = "struct" THEN {"field"} ELSE {}) \cup
                   (IF Top.kind = "enum" THEN {"variant"} ELSE {}) :
          buffer' = line(buffer, Top.indent, kind, <<>>)
    /\ UNCHANGED scopes
    /\ roots' = Used(roots)
    /\ UNCHANGED <<sdkVars, nameVars, bitVars, prior, callVars>>

\* Writer::undent
Writer_undent(indent) == indent - INDENT

\* The mutant of Writer_indent: the indent stays where undent left it.
Writer_indent_lost(indent) == indent

\* Writer::indent
Writer_indent(indent) == indent + INDENT

\* IfBlock::else_block: undent, "} else {", indent.
ElseBlock ==
    /\ Len(buffer) < MaxLines
    /\ Top.kind = "if"
    /\ buffer' = line(buffer, Writer_undent(Top.indent), "else", <<>>)
    /\ scopes' = [scopes EXCEPT ![Len(scopes)].indent =
                                    Writer_indent(Writer_undent(Top.indent))]
    /\ roots' = Used(roots)
    /\ UNCHANGED <<sdkVars, nameVars, bitVars, prior, callVars>>

\* The innermost scope object goes out of scope: Drop writes the closer.
Release ==
    /\ Len(scopes) > 1
    /\ buffer' = DropScope(buffer, Top.indent)
    /\ scopes' = SubSeq(scopes, 1, Len(scopes) - 1)
    /\ roots' = Used(roots)
    /\ UNCHANGED <<sdkVars, nameVars, bitVars, prior, callVars>>

RECURSIVE DropAll(_, _)
\* The scope objects of a frame dropped innermost first.
DropAll(buf, open) ==
    IF Len(open) <= 1 THEN buf
    ELSE DropAll(DropScope(buf, open[Len(open)].indent), SubSeq(open, 1, Len(open) - 1))

\* An early return with "?": every scope object under the root is dropped.
ErrorReturn ==
    /\ Len(scopes) > 2
    /\ buffer' = DropAll(buffer, scopes)
    /\ scopes' = <<scopes[1]>>
    /\ roots' = Used(roots)
    /\ UNCHANGED <<sdkVars, nameVars, bitVars, prior, callVars>>

NextGen ==
    OpenGen \/ OpenFunction \/ OpenIfBlock \/ Content \/ ElseBlock \/ Release \/ ErrorReturn

SpecGen == InitGen /\ [][NextGen]_vars

Headers == {"struct", "enum", "impl", "fn", "if"}

Bad == [ok |-> FALSE, open |-> <<>>]

RECURSIVE Unclosed(_, _, _)
\* The headers of the text that have no closer yet, outermost first; ok
\* when every closer stands at the indentation of the last header without
\* one and every other line one level inside it (an else at its level,
\* text outside every header at the level of the root).
Unclosed(lines, open, root) ==
    IF lines = <<>> THEN [ok |-> TRUE, open |-> open]
    ELSE LET l == Head(lines)
             inside == IF open = <<>> THEN root ELSE open[Len(open)].ind + INDENT
         IN  IF l.kind \in Headers
             THEN IF l.ind = inside THEN Unclosed(Tail(lines), Append(open, l), root)
                  ELSE Bad
             ELSE IF l.kind = "closer"
             THEN IF open # <<>> /\ l.ind = open[Len(open)].ind
                  THEN Unclosed(Tail(lines), SubSeq(open, 1, Len(open) - 1), root)
                  ELSE Bad
             ELSE IF l.kind = "else"
             THEN IF open # <<>> /\ open[Len(open)].kind = "if" /\ l.ind = open[Len(open)].ind
                  THEN Unclosed(Tail(lines), open, root)
                  ELSE Bad
             ELSE IF l.ind = inside THEN Unclosed(Tail(lines), open, root)
             ELSE Bad

MaxVariants == 3

N_WEAP == <<"W","E","A","P">>

V_Pistol == <<"W","E","A","P","_","P","i","s","t","o","l">>
V_Shotgun == <<"W","E","A","P","_","S","h","o","t","g","u","n">>
V_MAX == <<"W","E","A","P","_","M","A","X">>

\* The variant names of the runs: Scenario C, a name and its own "_1"
\* form, a name that ends in the separator, a reserved word after the
\* prefix and the "enum name + MAX" sentinel.
VariantMenu ==
    { V_Pistol, V_Shotgun, V_MAX,
      <<"X">>, <<"X","_","1">>, <<"A","_">>, <<"A","_","B">>,
      <<"X","_","S","e","l","f">>, <<"X","_","W","E","A","P","M","A","X">> }

VariantLists == UNION { [1..n -> VariantMenu] : n \in 0..MaxVariants }

\* Scenario C: enum WEAP.
ScenarioC == EnumObj(N_WEAP, <<V_Pistol, V_Shotgun, V_MAX>>)

InitEnums ==
    /\ statics = AllStatics
    /\ objects \in { <<EnumObj(N_WEAP, vs)>> : vs \in VariantLists }
    /\ cursor = 1 /\ sink = <<>> /\ result = "setup" /\ log = <<>>
    /\ IdleNames /\ IdleBits /\ IdleGen /\ prior = <<>> /\ IdleCall

SpecEnums == InitEnums /\ [][NextSdk]_vars

EnumEntries == {e \in Entries : Is(Subject(e), "Enum")}

\* The names passed to Enumeration::variant for one enum, in order.
VariantNames(e) ==
    LET ls == SelectSeq(e.lines, LAMBDA l : l.kind = "variant")
    IN  [i \in 1..Len(ls) |-> ls[i].name]

AllResolve(enum) ==
    \A i \in 1..Len(enum.variants) : enum.variants[i] \notin {NoName, <<>>}

\* C11: for every enum whose variant names all resolve to non-empty names,
\* write_enumeration does not fail on an empty stripped form and every
\* variant name it emits has at least one character.
C11_NoEmptyVariant ==
    \A e \in EnumEntries :
        AllResolve(Subject(e)) =>
            /\ e.err # "Panic"
            /\ \A i \in 1..Len(VariantNames(e)) : VariantNames(e)[i] # <<>>

\* C12: for every enum the variant names emitted are pairwise distinct.
C12_VariantsDistinct ==
    \A e \in EnumEntries :
        \A i, j \in 1..Len(VariantNames(e)) :
            i # j => VariantNames(e)[i] # VariantNames(e)[j]

Components(v) == SplitOn(v, {"_"}, <<>>)

\* The first k components of every variant are those of the first variant.
SharedBy(vs, k) ==
    \A i \in 1..Len(vs) :
        /\ Len(Components(vs[i])) >= k
        /\ SubSeq(Components(vs[i]), 1, k) = SubSeq(Components(vs[1]), 1, k)

\* The number of leading components all variants share, at its largest.
Shared(vs) ==
    CHOOSE k \in 0..Len(Components(vs[1])) :
        /\ SharedBy(vs, k)
        /\ \A m \in (k + 1)..Len(Components(vs[1])) : ~SharedBy(vs, m)

\* The bytes of the first k components of v, one separator after each.
SkipLen(v, k) == k + SumLen(SubSeq(Components(v), 1, k))

\* What is left of the deduplicated variant u after skip bytes.
Remainder(u, skip) == SubSeq(u, skip + 1, Len(u))

\* The remainder is kept: it exists and is a valid identifier.
Strippable(u, skip) ==
    /\ skip <= Len(u)
    /\ Remainder(u, skip) # <<>>
    /\ ~IsDigit(Remainder(u, skip)[1])
    /\ Remainder(u, skip) # N_Self

\* The text of the variant u before case normalisation.
Kept(u, skip, name) ==
    IF ~Strippable(u, skip) THEN u
    ELSE IF IsPrefix(name, Remainder(u, skip)) /\ IsSuffix(N_MAX, Remainder(u, skip))
         THEN SubSeq(Remainder(u, skip), Len(name) + 1, Len(Remainder(u, skip)))
    ELSE Remainder(u, skip)

\* The deduplicated variants of an enum and the bytes of its shared prefix.
Deduplicated(enum) == UniqueNames([n \in {} |-> 0], enum.variants)
SharedLen(enum) == SkipLen(enum.variants[1], Shared(enum.variants))

MaxOuters == 3

N_EFlightMode == <<"E","F","l","i","g","h","t","M","o","d","e">>

OuterChains == UNION { [1..n -> { <<"A">>, <<"B">> }] : n \in 0..MaxOuters }

\* Enums with one variant, denylisted or not, under every outer chain.
OuterEnums ==
    { [EnumObj(n, << <<"X">> >>) EXCEPT !.outers = o] :
          n \in {N_EFlightMode, <<"E">>}, o \in OuterChains }

InitOuters ==
    /\ statics = AllStatics
    /\ objects \in { <<a, b>> : a, b \in OuterEnums }
    /\ cursor = 1 /\ sink = <<>> /\ result = "setup" /\ log = <<>>
    /\ IdleNames /\ IdleBits /\ IdleGen /\ prior = <<>> /\ IdleCall

SpecOuters == InitOuters /\ [][NextSdk]_vars

\* The type names an entry declares (the names of its enum headers).
TypeNames(e) ==
    LET hs == SelectSeq(e.lines, LAMBDA l : l.kind = "enum")
    IN  [i \in 1..Len(hs) |-> hs[i].name]

Joined(a, b, c) == a \o <<"_">> \o b \o <<"_">> \o c

\* C14 as stated: the bare name off the denylist, and on it
\* {grandparent}_{parent}_{name} at every depth that has a grandparent.
C14_ParentPair ==
    \A e \in EnumEntries :
        LET o == Subject(e) IN
        /\ o.name \notin DUPLICATES => e.err = "" /\ TypeNames(e) = <<o.name>>
        /\ o.name \in DUPLICATES /\ Len(o.outers) >= 2 =>
               /\ e.err = ""
               /\ TypeNames(e) = <<Joined(o.outers[2], o.outers[1], o.name)>>

\* C14, amended: the bare name off the denylist; on it the name follows
\* the outermost object of the outer chain and the object just inside
\* that one (with one outer that is the node itself, and with two outers
\* they are the grandparent and the parent); without any outer the
\* result is the error ModuleSubmodule and nothing is written.
C14_OutermostPair ==
    \A e \in EnumEntries :
        LET o == Subject(e)
            n == Len(o.outers)
        IN
        /\ o.name \notin DUPLICATES => e.err = "" /\ TypeNames(e) = <<o.name>>
        /\ o.name \in DUPLICATES /\ n = 0 =>
               e.err = "ModuleSubmodule" /\ e.lines = <<>>
        /\ o.name \in DUPLICATES /\ n = 1 =>
               e.err = "" /\ TypeNames(e) = <<Joined(o.outers[1], o.name, o.name)>>
        /\ o.name \in DUPLICATES /\ n >= 2 =>
               /\ e.err = ""
               /\ TypeNames(e) = <<Joined(o.outers[n], o.outers[n - 1], o.name)>>

\* A denylisted enum three outers deep was written under the names of
\* its two outermost outers.
C14_Witness ==
    \E e \in EnumEntries :
        /\ Subject(e).name = N_EFlightMode
        /\ Subject(e).outers = << <<"A">>, <<"A">>, <<"B">> >>
        /\ TypeNames(e) = <<Joined(<<"B">>, <<"A">>, N_EFlightMode)>>

\* C15: two objects of the table with the same denylisted name under
\* different outer chains are emitted under two distinct type names.
C15_DistinctTypeNames ==
    \A e1, e2 \in EnumEntries :
        /\ e1.index # e2.index
        /\ e1.err = "" /\ e2.err = ""
        /\ Subject(e1).name \in DUPLICATES
        /\ Subject(e1).name = Subject(e2).name
        /\ Subject(e1).outers # Subject(e2).outers
        => TypeNames(e1) # TypeNames(e2)

(***************************************************************************)
(* Runs of sdk() on tables that lack marker classes                        *)
(***************************************************************************)

\* The most marker classes a table of the runs lacks.
MaxMissing == 2

InitSetup ==
    /\ statics \in { AllStatics \ m :
                        m \in { x \in SUBSET AllStatics : Cardinality(x) <= MaxMissing } }
    /\ objects \in { <<ObjectMenu[i]>> : i \in 1..Len(ObjectMenu) }
    /\ cursor = 1 /\ sink = <<>> /\ result = "setup" /\ log = <<>>
    /\ IdleNames /\ IdleBits /\ IdleGen /\ prior = <<>> /\ IdleCall

SpecSetup == InitSetup /\ [][NextSdk]_vars

\* The places of the lookup order whose marker the table lacks.
Missing == {i \in 1..Len(StaticClasses) : StaticClasses[i] \notin statics}

\* C16: when the table lacks a marker class, sdk() ends with
\* StaticClassNotFound naming a lacking marker (the first of the lookup
\* order) with no file created and no object processed.
C16_MissingMarkerFatal ==
    Missing # {} /\ result # "setup" =>
        /\ \E i \in Missing :
               /\ \A j \in Missing : i <= j
               /\ result = "StaticClassNotFound(Class Core." \o StaticClasses[i] \o ")"
        /\ sink = <<>>
        /\ log = <<>>
        /\ cursor = 1

\* Two markers are lacking and the run ended naming the one looked up first.
C16_Witness ==
    /\ AllStatics \ statics = {"StrProperty", "Enum"}
    /\ result = "StaticClassNotFound(Class Core.Enum)"

(***************************************************************************)
(* Runs of sdk() one after another on the same table                       *)
(***************************************************************************)

\* The number of runs of sdk() over one table.
MaxRuns == 2

\* The pass is started again (the library is attached to the same,
\* unmodified process image once more): the file of the earlier run is
\* on disk, everything else starts as at the first run.
Rerun ==
    /\ result \notin {"idle", "setup", "running"}
    /\ Len(prior) + 1 < MaxRuns
    /\ prior' = Append(prior, [sink |-> sink, result |-> result])
    /\ result' = "setup" /\ cursor' = 1 /\ log' = <<>>
    /\ UNCHANGED <<statics, objects, sink>>
    /\ UNCHANGED <<nameVars, bitVars, genVars, callVars>>

NextTwice == NextSdk \/ Rerun

\* A struct with two properties of equal sort key (same offset, no booleans).
TieStruct ==
    StructObj(<<"T">>, NoSuper, 28,
              << Prop(PropertyChain("FloatProperty"), <<"Z">>, 20, 4, 2, 0),
                 Prop(PropertyChain("ByteProperty"), <<"X">>, 20, 1, 1, 0) >>)

TwiceTables ==
    { <<a>> : a \in Range(ObjectMenu) \cup {TieStruct, ScenarioB} }
        \cup { <<a, b>> : a, b \in Range(ObjectMenu) }

InitTwice ==
    /\ statics \in {AllStatics, AllStatics \ {"MapProperty"}}
    /\ objects \in TwiceTables
    /\ cursor = 1 /\ sink = <<>> /\ result = "setup" /\ log = <<>>
    /\ IdleNames /\ IdleBits /\ IdleGen /\ prior = <<>> /\ IdleCall

SpecTwice == InitTwice /\ [][NextTwice]_vars

Finished == result \notin {"idle", "setup", "running"}

MaxFields == 3

N_Vec == <<"V","e","c">>

StructProp(name, offset, element_size, ref, ref_size) ==
    [Prop(PropertyChain("StructProperty"), name, offset, element_size, 1, 0)
     EXCEPT !.ref = ref, !.ref_size = ref_size]

\* A property below the base size, properties above it, booleans of one
\* name at two offsets, a struct reference whose element size is the
\* size of the struct referred to and one whose element size is not,
\* and a property named base.
DerivedMenu ==
    << IntProp(<<"H">>, 8, 4, 1),
       IntProp(<<"X">>, 16, 4, 1),
       BoolProp(<<"b","A">>, 16, 1),
       BoolProp(<<"b","A">>, 24, 1),
       BoolProp(<<"a">>, 24, 2),
       StructProp(<<"P">>, 20, 8, N_Vec, 8),
       StructProp(<<"Q">>, 20, 8, N_Vec, 12),
       IntProp(N_base, 20, 4, 1) >>

DerivedChains ==
    UNION { { [i \in 1..n |-> DerivedMenu[f[i]]] :
                f \in { g \in [1..n -> 1..Len(DerivedMenu)] :
                          \A a, b \in 1..n : a # b => g[a] # g[b] } } :
            n \in 0..MaxFields }

DerivedStructs ==
    { StructObj(<<"D">>, sup, 28, c) :
          sup \in {NoSuper, SelfSuper, BaseSuper(N_Base, 16), BaseSuper(N_Base, 0)},
          c \in DerivedChains }

InitDerived ==
    /\ statics = AllStatics
    /\ objects \in { <<d>> : d \in DerivedStructs }
    /\ cursor = 1 /\ sink = <<>> /\ result = "setup" /\ log = <<>>
    /\ IdleNames /\ IdleBits /\ IdleGen /\ prior = <<>> /\ IdleCall

SpecDerived == InitDerived /\ [][NextSdk]_vars

\* The places of the span comments among the lines of an entry.
SpanAt(e) == {i \in 1..(Len(e.lines) - 1) : e.lines[i].kind = "span"}

\* The span is the one of the base field: named base, without "pub ".
IsBaseSpan(e, i) == e.lines[i + 1].kind = "field" /\ e.lines[i + 1].name = N_base

HeaderWritten(e) == \E i \in 1..Len(e.lines) : e.lines[i].kind = "struct"

\* C18: a struct with a usable super has exactly one base span, it covers
\* [0, base_size) as the field base of the super's type, and every other
\* span starts at base_size or above; a struct whose super is null or the
\* struct itself has no base span and its base offset is 0.
C18_BaseSpan ==
    \A e \in StructEntries :
        HeaderWritten(e) =>
            LET o == Subject(e) IN
            /\ o.super.kind = "base" =>
                   /\ Cardinality({i \in SpanAt(e) : IsBaseSpan(e, i)}) = 1
                   /\ \A i \in SpanAt(e) :
                          IF IsBaseSpan(e, i)
                          THEN /\ e.lines[i].off = 0
                               /\ e.lines[i].len = o.super.property_size
                               /\ e.lines[i + 1].typ = o.super.name
                               /\ \A j \in SpanAt(e) : i <= j
                          ELSE e.lines[i].off >= o.super.property_size
            /\ o.super.kind \in {"null", "self"} =>
                   /\ BaseOffset(o) = 0
                   /\ \A i \in SpanAt(e) : ~IsBaseSpan(e, i)

\* A derived struct with a child below the base size was written: the
\* base span, the field at 0x10 and the padding up to the declared size.
C18_Witness ==
    /\ result = "Ok"
    /\ \E e \in StructEntries :
           /\ e.err = ""
           /\ Subject(e).super = BaseSuper(N_Base, 16)
           /\ Subject(e).children = <<DerivedMenu[2], DerivedMenu[1]>>
           /\ Cardinality(SpanAt(e)) = 3

UsableStructRef(p) == Is(p, "StructProperty") /\ p.ref \notin {NullRef, NoName}

\* C19: the classifier's size of a struct reference is the declared size
\* of the struct referred to, so a reference whose element_size differs
\* from that size fails the struct that holds it.
C19_StructRefSize ==
    \A e \in StructEntries :
        \A i \in 1..Len(Subject(e).children) :
            LET p == Subject(e).children[i] IN
            UsableStructRef(p) /\ IsField(p, BaseOffset(Subject(e))) =>
                /\ PropertyInfo(p).size = p.ref_size
                /\ p.element_size # p.ref_size => e.err # ""

RECURSIVE Flatten(_)
Flatten(groups) ==
    IF groups = <<>> THEN <<>> ELSE Head(groups).fields \o Flatten(Tail(groups))

\* The name derived from a boolean's raw name: a leading b before an
\* uppercase letter is dropped, the rest is put in snake case.
Derived(raw) ==
    to_snake_case(IF Len(raw) >= 2 /\ raw[1] = "b" /\ IsUpper(raw[2])
                  THEN Tail(raw) ELSE raw)

\* The derived name with the suffix of its place among the booleans of
\* the struct: bare at first, then _1, _2, ...
Suffixed(names, i) ==
    LET k == Cardinality({j \in 1..(i - 1) : Derived(names[j]) = Derived(names[i])})
    IN  IF k = 0 THEN Derived(names[i]) ELSE Derived(names[i]) \o <<"_">> \o Dec(k)

\* The names of the accessor functions of an entry with the prefix given.
Accessors(e, prefix) ==
    LET fs == SelectSeq(e.lines, LAMBDA l : l.kind = "fn" /\ IsPrefix(prefix, l.name))
    IN  [i \in 1..Len(fs) |-> fs[i].name]

\* C20: over all bitfield groups of a struct the derived accessor names
\* are counted per struct: the first occurrence is bare, later ones get
\* _1, _2, ..., and no two getters and no two setters share a name.
C20_AccessorsPerStruct ==
    \A e \in StructEntries :
        e.err = "" =>
            LET names == Flatten(e.bitfields) IN
            /\ Accessors(e, N_is) = [i \in 1..Len(names) |-> N_is \o Suffixed(names, i)]
            /\ Accessors(e, N_set) = [i \in 1..Len(names) |-> N_set \o Suffixed(names, i)]
            /\ \A i, j \in 1..Len(Accessors(e, N_is)) :
                   i # j => Accessors(e, N_is)[i] # Accessors(e, N_is)[j]

(***************************************************************************)
(* genial: root Scopes made over a sink and released (SpecScopes)          *)
(***************************************************************************)

\* The most root Scopes one run makes over the sink, one after the other.
MaxRoots == 2
\* The lines in the sink from which on the Scopes of these runs are only
\* released.
MaxText == 4

\* let mut buffer = vec![]: the sink before the first Scope is made; a
\* later Scope is made over what the earlier ones left in it.
InitScopes ==
    /\ buffer = <<>>
    /\ scopes = <<>> /\ roots = <<>>
    /\ IdleSdk /\ IdleNames /\ IdleBits

\* Scope::new(Writer::from(&mut buffer)): the writer at indent 0 moves
\* into the Scope; nothing is written.
NewScope ==
    /\ scopes = <<>> /\ Len(roots) < MaxRoots
    /\ scopes' = <<ScopeObj("scope", 0)>>
    /\ roots' = Append(roots, Root(buffer))
    /\ UNCHANGED buffer
    /\ UNCHANGED <<sdkVars, nameVars, bitVars, prior, callVars>>

\* The mutant of ScopeDrop: the root closes like the scopes under it.
ScopeDropCloser(buf) == ind_ln(buf, 0, "closer", <<>>, <<>>, 0, 0)

\* A Scope going out of scope: Scope has no Drop, its Writer is freed.
ScopeDrop(buf) == buf

\* The end of the block that holds the root Scope.
DropRoot ==
    /\ Len(scopes) = 1
    /\ buffer' = ScopeDrop(buffer)
    /\ scopes' = <<>>
    /\ roots' = [roots EXCEPT ![Len(roots)].after = ScopeDrop(buffer)]
    /\ UNCHANGED <<sdkVars, nameVars, bitVars, prior, callVars>>

\* Any operation of the scoped writer, while a root Scope lives.
UseScope == scopes # <<>> /\ Len(buffer) < MaxText /\ NextGen

NextScopes == NewScope \/ UseScope \/ DropRoot

SpecScopes == InitScopes /\ [][NextScopes]_vars

\* The root Scope k has been released.
Released(k) == k < Len(roots) \/ scopes = <<>>

\* C21: a Scope that is created over a writer and released without any
\* operation writes nothing: the content of the sink after the release
\* is its content before the creation, whatever the sink held then.
C21_EmptyScopeSilent ==
    \A k \in 1..Len(roots) :
        (Released(k) /\ ~roots[k].used) => roots[k].after = roots[k].before

\* A Scope that wrote was released, then a second one was made over the
\* sink that now holds text and released without any operation.
C21_Witness ==
    /\ Len(roots) = 2 /\ scopes = <<>>
    /\ roots[1].used /\ roots[1].after # roots[1].before
    /\ ~roots[2].used /\ roots[2].before # <<>> /\ buffer = roots[2].before

(***************************************************************************)
(* Runs of sdk() on a struct of one property that holds other properties   *)
(***************************************************************************)

\* The deepest nesting of array inner and map key / value properties.
MaxNest == 2

N_p == <<"p">>

\* A property of the given runtime-class chain and reference.
RefProp(chain, ref) ==
    [Prop(chain, N_p, 0, PointerSize, 1, 0) EXCEPT !.ref = ref]

\* ArrayProperty: inner is <<>> (null) or <<property>>.
ArrayProp(inner) ==
    [Prop(PropertyChain("ArrayProperty"), N_p, 0, ArraySize, 1, 0) EXCEPT !.inner = inner]

\* MapProperty: key and value are <<>> (null) or <<property>>.
MapProp(key, value) ==
    [Prop(PropertyChain("MapProperty"), N_p, 0, MAP_SIZE_BYTES, 1, 0)
     EXCEPT !.key = key, !.value = value]

\* ClassProperty extends ObjectProperty.
ClassChain == <<"ClassProperty", "ObjectProperty", "Property", "Field", "Object">>

\* Properties that hold no property: a simple one, one of no known
\* kind, and references of each kind, null and set.
Leaves ==
    { IntProp(N_p, 0, IntSize, 1),
      RefProp(<<"Property", "Field", "Object">>, NullRef),
      RefProp(PropertyChain("ObjectProperty"), NullRef),
      RefProp(PropertyChain("ObjectProperty"), N_Actor),
      RefProp(ClassChain, NullRef),
      RefProp(PropertyChain("InterfaceProperty"), NullRef),
      RefProp(PropertyChain("StructProperty"), NullRef) }

\* The properties on the short side of a map.
Plain == { IntProp(N_p, 0, IntSize, 1), RefProp(PropertyChain("ObjectProperty"), NullRef) }

\* A pointer to a property of the set, or null.
Opt(props) == {<<>>} \cup { <<q>> : q \in props }

RECURSIVE Nested(_)
\* The properties that hold properties to the depth n.
Nested(n) ==
    IF n = 0 THEN Leaves
    ELSE Leaves
         \cup { ArrayProp(i) : i \in Opt(Nested(n - 1)) }
         \cup { MapProp(k, v) : k \in Opt(Nested(n - 1)), v \in Opt(Plain) }
         \cup { MapProp(k, v) : k \in Opt(Plain), v \in Opt(Nested(n - 1)) }

InitClassify ==
    /\ statics = AllStatics
    /\ objects \in { <<StructObj(<<"D">>, NoSuper, 28, <<q>>)>> : q \in Nested(MaxNest) }
    /\ cursor = 1 /\ sink = <<>> /\ result = "setup" /\ log = <<>>
    /\ IdleNames /\ IdleBits /\ IdleGen /\ prior = <<>> /\ IdleCall

SpecClassify == InitClassify /\ [][NextSdk]_vars

\* The 13 property markers.
PropertyMarkers ==
    { "ArrayProperty", "BoolProperty", "ByteProperty", "ClassProperty",
      "DelegateProperty", "FloatProperty", "IntProperty", "InterfaceProperty",
      "MapProperty", "NameProperty", "ObjectProperty", "StrProperty",
      "StructProperty" }

\* The kind of a property: the most derived marker of its chain.
Kind(q) ==
    LET at == {i \in 1..Len(q.chain) : q.chain[i] \in PropertyMarkers}
    IN  IF at = {} THEN "none"
        ELSE q.chain[CHOOSE i \in at : \A j \in at : i <= j]

\* The null-reference error of the kinds that require a reference.
NullError(kind) ==
    CASE kind = "ClassProperty" -> "NullMetaClass"
      [] kind = "ObjectProperty" -> "NullPropertyClass"
      [] kind = "InterfaceProperty" -> "NullInterfaceClass"
      [] kind = "StructProperty" -> "NullPropertyStruct"

RECURSIVE Faults(_)
\* What stands against a size and type for q: the error of each null
\* reference its kind requires, of each unnamed referenced object and of
\* each property of no kind, through inner, key and value.
Faults(q) ==
    LET kind == Kind(q)
        Unnamed == IF q.ref = NoName THEN {"NullName"} ELSE {}
    IN  IF kind = "none" THEN {"UnknownProperty"}
        ELSE IF kind = "ArrayProperty"
        THEN IF q.inner = <<>> THEN {"NullArrayInner"} ELSE Faults(q.inner[1])
        ELSE IF kind = "MapProperty"
        THEN (IF q.key = <<>> THEN {"NullMapKeyProperty"} ELSE Faults(q.key[1]))
             \cup (IF q.value = <<>> THEN {"NullMapValueProperty"} ELSE Faults(q.value[1]))
        ELSE IF kind \in {"ClassProperty", "ObjectProperty", "InterfaceProperty",
                          "StructProperty"}
        THEN IF q.ref = NullRef THEN {NullError(kind)} ELSE Unnamed
        ELSE IF kind = "ByteProperty" /\ q.ref # NullRef THEN Unnamed
        ELSE {}

\* The classifier returned a size and a type for the property of the entry.
Classified(e) == e.err \in {"", "PropertySizeMismatch"}

\* C22: classify returns a size and type only if every reference the
\* kind of the property requires is non-null, through array inner and map
\* key / value properties; otherwise the error is one of a null
\* reference or kindless property that the property holds, and the error
\* of the property's own null reference when that is the only one.
C22_ClassifyNeedsReferences ==
    \A e \in StructEntries :
        LET q == Subject(e).children[1]
            faults == Faults(q)
        IN  /\ Classified(e) <=> faults = {}
            /\ faults # {} => e.err \in faults

\* An array of a map whose key classifies and whose value is null was
\* refused with the error of the map value, which ended the run.
C22_Witness ==
    \E e \in StructEntries :
          LET q == Subject(e).children[1]
          IN  /\ Kind(q) = "ArrayProperty" /\ q.inner # <<>>
              /\ Kind(q.inner[1]) = "MapProperty"
              /\ q.inner[1].key # <<>> /\ Faults(q.inner[1].key[1]) = {}
              /\ q.inner[1].value = <<>>
              /\ e.err = "NullMapValueProperty"
              /\ result = "NullMapValueProperty"

(***************************************************************************)
(* Properties of one offset (SpecLayout)                                   *)
(***************************************************************************)

\* The offsets of the spans of an entry that no padding field follows:
\* the fields of properties and the backing fields of bitfield groups.
FieldOffsets(e) ==
    LET at == {i \in 1..(Len(e.lines) - 1) :
                  /\ e.lines[i].kind = "span" /\ e.lines[i + 1].kind = "field"
                  /\ ~IsPrefix(N_pad_at, e.lines[i + 1].name)
                  /\ (IsRoot(Subject(e)) \/ e.lines[i + 1].name # N_base)}
    IN  [i \in at |-> e.lines[i].off]

\* C23: in every struct emitted without error, two properties of one
\* offset are both booleans of one bitfield group, and no two spans of
\* fields (of properties or of bitfield groups) stand at one offset.
C23_SharedOffsetOnlyBooleans ==
    \A e \in StructEntries :
        e.err = "" =>
            LET ps == Walk(Subject(e))
                offs == FieldOffsets(e)
            IN  /\ \A i, j \in 1..Len(ps) :
                      (i < j /\ ps[i].offset = ps[j].offset) =>
                          /\ Is(ps[i], "BoolProperty") /\ Is(ps[j], "BoolProperty")
                          /\ Cardinality({k \in 1..Len(e.bitfields) :
                                             e.bitfields[k].offset = ps[i].offset}) = 1
                /\ \A a, b \in DOMAIN offs : a # b => offs[a] # offs[b]

(***************************************************************************)
(* Runs of sdk() on an enum with "enum name + MAX" variants                *)
(***************************************************************************)

N_FooBar == <<"F","o","o","B","a","r">>
N_Max == <<"M","a","x">>

\* The sentinel directly after the enum's name, after an underscore,
\* after a letter, behind a shared component, and names without it.
SentinelMenu ==
    { N_FooBar \o N_MAX, N_FooBar \o <<"_">> \o N_MAX, N_FooBar \o <<"X">> \o N_MAX,
      <<"X","_">> \o N_FooBar \o N_MAX, <<"X">>, N_MAX }

InitSentinel ==
    /\ statics = AllStatics
    /\ objects \in { <<EnumObj(n, vs)>> :
                        n \in {N_FooBar, N_MAX},
                        vs \in UNION { [1..k -> SentinelMenu] : k \in 0..MaxVariants } }
    /\ cursor = 1 /\ sink = <<>> /\ result = "setup" /\ log = <<>>
    /\ IdleNames /\ IdleBits /\ IdleGen /\ prior = <<>> /\ IdleCall

SpecSentinel == InitSentinel /\ [][NextSdk]_vars

\* The stripped form of the variant u starts with the enum's emitted
\* name and ends in MAX.
IsSentinel(u, skip, name) ==
    /\ skip <= Len(u)
    /\ IsPrefix(name, Remainder(u, skip)) /\ IsSuffix(N_MAX, Remainder(u, skip))

\* What follows the enum's name in the stripped form.
AfterName(u, skip, name) ==
    SubSeq(Remainder(u, skip), Len(name) + 1, Len(Remainder(u, skip)))

\* C24 as stated: a variant whose stripped form starts with the enum's
\* emitted name and ends in MAX is emitted as MAX, whatever lies between.
C24_SentinelAsStated ==
    \A e \in EnumEntries :
        e.err = "" /\ Subject(e).variants # <<>> =>
            LET us == Deduplicated(Subject(e))
                skip == SharedLen(Subject(e))
                name == resolve_duplicate(Subject(e)).name
            IN  \A i \in 1..Len(VariantNames(e)) :
                    IsSentinel(us[i], skip, name) => VariantNames(e)[i] = N_MAX

\* C24, amended: such a variant is emitted as the camel-case form of what
\* follows the enum's name in the stripped form: Max when that is MAX
\* alone or MAX after underscores (FooBarMAX and FooBar_MAX inside FooBar
\* yield Max), and with the other characters kept otherwise (FooBarXMAX
\* yields Xmax).
C24_SentinelTrimmed ==
    \A e \in EnumEntries :
        e.err = "" /\ Subject(e).variants # <<>> =>
            LET us == Deduplicated(Subject(e))
                skip == SharedLen(Subject(e))
                name == resolve_duplicate(Subject(e)).name
            IN  \A i \in 1..Len(VariantNames(e)) :
                    IsSentinel(us[i], skip, name) =>
                        LET after == AfterName(us[i], skip, name)
                        IN  /\ VariantNames(e)[i] = to_camel_case(after)
                            /\ (/\ IsSuffix(N_MAX, after)
                                /\ \A k \in 1..(Len(after) - 3) : after[k] = "_")
                                   => VariantNames(e)[i] = N_Max
                            /\ us[i] = N_FooBar \o <<"X">> \o N_MAX
                                   => VariantNames(e)[i] = <<"X","m","a","x">>

\* Enum FooBar was written with FooBar_MAX as Max and X as X.
C24_Witness ==
    /\ result = "Ok"
    /\ \E e \in EnumEntries :
           /\ e.err = ""
           /\ Subject(e).name = N_FooBar
           /\ Subject(e).variants = <<N_FooBar \o <<"_">> \o N_MAX, <<"X">>>>
           /\ SharedLen(Subject(e)) = 0
           /\ VariantNames(e) = <<N_Max, <<"X">>>>

(***************************************************************************)
(* genial: if / else chains (SpecGen)                                      *)
(***************************************************************************)

\* The lines before line i, and the lines after it, that stand at its
\* indentation or further out and are no else lines.
OutBefore(i) ==
    {h \in 1..(i - 1) : buffer[h].ind <= buffer[i].ind /\ buffer[h].kind # "else"}
OutAfter(i) ==
    {j \in (i + 1)..Len(buffer) : buffer[j].ind <= buffer[i].ind /\ buffer[j].kind # "else"}

Last(set) == CHOOSE x \in set : \A y \in set : y <= x
First(set) == CHOOSE x \in set : \A y \in set : x <= y

IfHeaders == {h \in 1..Len(buffer) : buffer[h].kind = "if"}

MaxBools == 3

BoolNames == << <<"b","A">>, <<"b","B">>, <<"b","C">>, <<"b","D">>, <<"b","E">> >>

\* The bitmasks of the runs: bits 0, 1, 2 and 4.
MaskMenu == {1, 2, 4, 16}

\* The struct of n booleans at 0x10 with the bitmasks given, in child order.
MaskStruct(masks) ==
    StructObj(<<"M">>, NoSuper, 20,
              [i \in 1..Len(masks) |-> BoolProp(BoolNames[i], 16, masks[i])])

InitMasks ==
    /\ statics = AllStatics
    /\ objects \in { <<MaskStruct(ms)>> :
                        ms \in UNION { [1..n -> MaskMenu] : n \in 0..MaxBools } }
    /\ cursor = 1 /\ sink = <<>> /\ result = "setup" /\ log = <<>>
    /\ IdleNames /\ IdleBits /\ IdleGen /\ prior = <<>> /\ IdleCall

SpecMasks == InitMasks /\ [][NextSdk]_vars

\* The position of the set bit of a bitmask of one bit.
BitOf(bitmask) == CHOOSE b \in 0..31 : (b < 31 /\ Pow2(b) = bitmask)

\* The setter of the boolean at the bit.
HasSetter(lines, backing_name, raw, bit) ==
    \E i \in 1..(Len(lines) - 2) :
        /\ lines[i].kind = "comment" /\ lines[i].name = N_set_c \o raw
        /\ lines[i + 1].kind = "fn"
        /\ lines[i + 2].kind = "set_bit" /\ lines[i + 2].name = backing_name
        /\ lines[i + 2].off = bit

\* C26: in every struct that is reconstructed, the getter and the setter
\* of each boolean of a bitfield group use the bit that is set in the
\* bitmask of the boolean, whatever bitmasks the group's booleans have.
C26_BitIsMaskPosition ==
    \A e \in StructEntries :
        e.err = "" =>
            \A i \in 1..Len(Storage(Subject(e))) :
                LET b == Storage(Subject(e))[i]
                IN  Is(b, "BoolProperty") =>
                        \E k \in 1..Len(e.bitfields) :
                            /\ e.bitfields[k].offset = b.offset
                            /\ HasGetter(e.lines, Identifier(FIELD, k - 1), b.name,
                                         BitOf(b.bitmask))
                            /\ HasSetter(e.lines, Identifier(FIELD, k - 1), b.name,
                                         BitOf(b.bitmask))

(***************************************************************************)
(* Runs of sdk() on a struct with a property named like a backing field    *)
(***************************************************************************)

\* A property whose raw name is the name of the first backing field,
\* one of another name, and booleans of two offsets.
BackingMenu ==
    << IntProp(FIELD, 16, 4, 1),
       IntProp(<<"X">>, 16, 4, 1),
       BoolProp(<<"b","A">>, 20, 1),
       BoolProp(<<"b","C">>, 20, 2),
       BoolProp(<<"b","B">>, 24, 1) >>

BackingChains ==
    UNION { { [i \in 1..n |-> BackingMenu[f[i]]] :
                f \in { g \in [1..n -> 1..Len(BackingMenu)] :
                          \A a, b \in 1..n : a # b => g[a] # g[b] } } :
            n \in 0..MaxFields }

InitBacking ==
    /\ statics = AllStatics
    /\ objects \in { <<StructObj(<<"K">>, NoSuper, 28, c)>> : c \in BackingChains }
    /\ cursor = 1 /\ sink = <<>> /\ result = "setup" /\ log = <<>>
    /\ IdleNames /\ IdleBits /\ IdleGen /\ prior = <<>> /\ IdleCall

SpecBacking == InitBacking /\ [][NextSdk]_vars

\* The u32 fields of an entry, one per bitfield group, in group order.
BackingFields(e) == SelectSeq(e.lines, LAMBDA l : l.kind = "field" /\ l.typ = T_u32)

RECURSIVE GroupStart(_, _)
\* The number of booleans in the groups before group k.
GroupStart(groups, k) ==
    IF k <= 1 THEN 0 ELSE GroupStart(groups, k - 1) + Len(groups[k - 1].fields)

\* The backing field that the first getter of group k reads.
BackingUsed(e, k) ==
    SelectSeq(e.lines, LAMBDA l : l.kind = "is_bit_set")[GroupStart(e.bitfields, k) + 1].name

\* C27: in every struct that is reconstructed, the backing field that the
\* accessors of bitfield group i read and write is the name of the u32
\* field add_fields wrote for the group, also when a property that is no
\* boolean is named bitfield.
C27_BackingFieldNamed ==
    \A e \in StructEntries :
        e.err = "" =>
            /\ Len(BackingFields(e)) = Len(e.bitfields)
            /\ \A k \in 1..Len(e.bitfields) :
                  /\ BackingUsed(e, k) = Identifier(FIELD, k - 1)
                  /\ BackingFields(e)[k].name = N_pub \o BackingUsed(e, k)

(***************************************************************************)
(* Runs of sdk() on a type and a struct that refers to it                  *)
(***************************************************************************)

\* The names of the types referred to: one on the denylist, one off it.
RefNames == {N_EFlightMode, N_Vec}

\* The type referred to: an enum, a struct or a class of the name.
Targets ==
    UNION { { EnumObj(n, << <<"X">> >>),
              StructObj(n, NoSuper, 8, <<>>),
              ClassObj(n, NoSuper, 8, <<>>) } : n \in RefNames }

\* The struct that refers to the type of the name: by a byte property
\* with an enum, a struct property, an object property, a class property,
\* or as its super.
Users ==
    UNION { { StructObj(<<"D">>, NoSuper, 28,
                  << [Prop(PropertyChain("ByteProperty"), N_p, 0, ByteSize, 1, 0)
                      EXCEPT !.ref = n] >>),
              StructObj(<<"D">>, NoSuper, 28, << StructProp(N_p, 0, 8, n, 8) >>),
              StructObj(<<"D">>, NoSuper, 28,
                  << RefProp(PropertyChain("ObjectProperty"), n) >>),
              StructObj(<<"D">>, NoSuper, 28, << RefProp(ClassChain, n) >>),
              StructObj(<<"D">>, BaseSuper(n, 8), 28, <<>>) } : n \in RefNames }

InitRefs ==
    /\ statics = AllStatics
    /\ objects \in UNION { { <<t, u>>, <<u, t>> } : t \in Targets, u \in Users }
    /\ cursor = 1 /\ sink = <<>> /\ result = "setup" /\ log = <<>>
    /\ IdleNames /\ IdleBits /\ IdleGen /\ prior = <<>> /\ IdleCall

SpecRefs == InitRefs /\ [][NextSdk]_vars

\* The name under which the type of an entry is emitted: the name of its
\* struct or enum header.
DefName(d) ==
    SelectSeq(d.lines, LAMBDA l : l.kind \in {"struct", "enum"})[1].name

\* The property p of the struct of entry e refers to the type of entry d.
RefersTo(p, d) ==
    /\ p.ref = Subject(d).name
    /\ \/ Is(p, "ByteProperty") /\ Is(Subject(d), "Enum")
       \/ Is(p, "StructProperty") /\ Is(Subject(d), "ScriptStruct")
       \/ Is(p, "ObjectProperty") /\ Is(Subject(d), "Class")

\* The type written for a reference to a type of the name.
RefType(p, name) ==
    IF Is(p, "ObjectProperty") THEN T_Option \o name \o <<">">> ELSE name

\* C28: every type name a written struct uses to refer to a written
\* struct, class or enum (the type of a field that refers to it, the type
\* of the base field, the Deref target) is the name under which that
\* type is itself emitted, on and off the denylist.
C28_TypeNamesResolve ==
    \A e, d \in Entries :
        (e.err = "" /\ d.err = "" /\ e.index # d.index /\ Is(Subject(e), "ScriptStruct")) =>
            /\ \A i \in 1..Len(Subject(e).children) :
                  RefersTo(Subject(e).children[i], d) =>
                      \A k \in 1..Len(e.lines) :
                          (e.lines[k].kind = "field"
                             /\ e.lines[k].name = N_pub \o Subject(e).children[i].name)
                          => e.lines[k].typ = RefType(Subject(e).children[i], DefName(d))
            /\ (/\ ~IsRoot(Subject(e))
                /\ Subject(e).super.name = Subject(d).name
                /\ (Is(Subject(d), "ScriptStruct") \/ Is(Subject(d), "Class"))) =>
                  \A k \in 1..Len(e.lines) :
                      /\ (e.lines[k].kind = "field" /\ e.lines[k].name = N_base)
                            => e.lines[k].typ = DefName(d)
                      /\ e.lines[k].kind = "type_target" => e.lines[k].name = DefName(d)

(***************************************************************************)
(* The generated wrapper function at run time                              *)
(***************************************************************************)

MaxCalls == 3

N_Tick == <<"T","i","c","k">>

\* The parameter lists of the wrapped method: none, an input, an output,
\* an input and an output, two outputs.
ParamMenu ==
    { <<>>,
      << [IntProp(<<"D">>, 0, 4, 1) EXCEPT !.param = "Input"] >>,
      << [IntProp(<<"R">>, 0, 4, 1) EXCEPT !.param = "Output"] >>,
      << [IntProp(<<"D">>, 0, 4, 1) EXCEPT !.param = "Input"],
         [IntProp(<<"R">>, 4, 4, 1) EXCEPT !.param = "Output"] >>,
      << [IntProp(<<"R">>, 0, 4, 1) EXCEPT !.param = "Output"],
         [IntProp(<<"Q">>, 4, 4, 1) EXCEPT !.param = "Output"] >> }

\* The values the flags of the game function take: 0x400 set or not,
\* another bit set or not.
FlagMenu == {0, 1, 1024, 1025}

\* sdk() on a table that holds one class with one method; the wrapper's
\* static starts as None, the function's flags are what the game holds.
InitWrapper ==
    /\ statics = AllStatics
    /\ objects \in { << ClassObj(N_Actor, BaseSuper(N_Object, 16), 20,
                                 << IntProp(<<"X">>, 16, 4, 1),
                                    Method(N_Tick, <<N_Actor, N_Core>>, ps, native) >>) >> :
                     ps \in ParamMenu, native \in BOOLEAN }
    /\ cursor = 1 /\ sink = <<>> /\ result = "setup" /\ log = <<>>
    /\ IdleNames /\ IdleBits /\ IdleGen /\ prior = <<>>
    /\ FUNCTION = "None" /\ flags \in FlagMenu /\ called = <<>>

\* "if let Some(function) = FUNCTION { ... } else { ... }": the lines of
\* the branch a call takes.
IfAt(lines) == CHOOSE i \in 1..Len(lines) : lines[i].kind = "if"
ElseAt(lines) == CHOOSE i \in 1..Len(lines) : lines[i].kind = "else"
EndAt(lines) ==
    CHOOSE j \in ElseAt(lines) + 1..Len(lines) :
        /\ lines[j].kind = "closer" /\ lines[j].ind = lines[IfAt(lines)].ind
        /\ \A k \in ElseAt(lines) + 1..j - 1 :
               ~(lines[k].kind = "closer" /\ lines[k].ind = lines[IfAt(lines)].ind)
Branch(lines, cache) ==
    IF cache # "None" THEN SubSeq(lines, IfAt(lines) + 1, ElseAt(lines) - 1)
    ELSE SubSeq(lines, ElseAt(lines) + 1, EndAt(lines) - 1)

\* What one call has done so far.
Entered(cache, fl) ==
    [FUNCTION |-> cache, flags |-> fl, old_flags |-> 0, dispatched |-> 0,
     lookups |-> 0, name |-> NoName, ret |-> "()"]

\* "(*function).flags |= 0x400;"
SetNative(st) ==
    [st EXCEPT !.flags = IF (st.flags \div 1024) % 2 = 1 THEN st.flags
                         ELSE st.flags + 1024]

\* "self.process_event(function, ...)": the engine runs the function and
\* leaves its flags as it likes.
ProcessEvent(st, during) ==
    [st EXCEPT !.dispatched = st.dispatched + 1, !.flags = during]

RestoreFlagsLost(st) == st

\* "(*function).flags = old_flags;"
RestoreFlags(st) == [st EXCEPT !.flags = st.old_flags]

\* One statement of the generated function.
Statement(st, l, found, during) ==
    IF l.kind = "old_flags" THEN [st EXCEPT !.old_flags = st.flags]
    ELSE IF l.kind = "native_flag" THEN SetNative(st)
    ELSE IF l.kind = "process_event" THEN ProcessEvent(st, during)
    ELSE IF l.kind = "restore_flags" THEN RestoreFlags(st)
    ELSE IF l.kind = "some" THEN [st EXCEPT !.ret = "Some"]
    ELSE IF l.kind = "find_mut"
         THEN [st EXCEPT !.lookups = st.lookups + 1, !.name = l.name]
    ELSE IF l.kind = "map"
         THEN [st EXCEPT !.FUNCTION = IF found THEN "Some" ELSE "None"]
    ELSE IF l.kind = "none" THEN [st EXCEPT !.ret = "None"]
    ELSE st

RECURSIVE Statements(_, _, _, _)
Statements(st, body, found, during) ==
    IF body = <<>> THEN st
    ELSE Statements(Statement(st, Head(body), found, during), Tail(body), found, during)

\* What a call leaves: the cache it found, the flags before and after,
\* and what it did in between.
Done(cache, before, st) ==
    [resolved |-> cache # "None", before |-> before, after |-> st.flags,
     dispatched |-> st.dispatched, lookups |-> st.lookups, name |-> st.name,
     ret |-> st.ret, FUNCTION |-> st.FUNCTION]

\* One call of the generated wrapper: the lookup finds the function or
\* not, the engine leaves the flags at any value of the menu.
Call ==
    /\ result = "Ok"
    /\ Len(called) < MaxCalls
    /\ \E found \in BOOLEAN, during \in FlagMenu :
           called' = Append(called,
                            Done(FUNCTION, flags,
                                 Statements(Entered(FUNCTION, flags),
                                            Branch(sink, FUNCTION), found, during)))
    /\ FUNCTION' = called'[Len(called')].FUNCTION
    /\ flags' = called'[Len(called')].after
    /\ UNCHANGED <<sdkVars, nameVars, bitVars, genVars, prior>>

NextWrapper == NextSdk \/ Call

SpecWrapper == InitWrapper /\ [][NextWrapper]_vars

\* The wrapped method and whether it has outputs.
Wrapped == objects[1].children[2]
HasOutputs == Outputs(Parameters(Wrapped).params) # <<>>

\* C29: the wrapper dispatches only on a call that finds its cached handle
\* resolved; a call that finds the cache empty performs the lookup by the
\* method's full name, does not dispatch, and returns None when the method
\* has outputs; a dispatching call leaves the function's flags as it
\* found them.
C29_DispatchOnlyWhenResolved ==
    \A i \in 1..Len(called) :
        /\ called[i].dispatched > 0 => called[i].resolved
        /\ ~called[i].resolved =>
               /\ called[i].dispatched = 0
               /\ called[i].lookups = 1
               /\ called[i].name = get_full_name(Wrapped)
               /\ called[i].after = called[i].before
               /\ HasOutputs => called[i].ret = "None"
        /\ called[i].dispatched > 0 => called[i].after = called[i].before

\* A native method with an output: the first call finds the cache empty,
\* looks the function up and returns None; the second dispatches with
\* 0x400 set on flags that did not have it and leaves them as they were.
C29_Witness ==
    /\ Len(called) = 2
    /\ Wrapped.native /\ HasOutputs
    /\ ~called[1].resolved /\ called[1].lookups = 1 /\ called[1].ret = "None"
    /\ called[1].FUNCTION = "Some"
    /\ called[2].resolved /\ called[2].dispatched = 1 /\ called[2].ret = "Some"
    /\ called[2].before = 1 /\ called[2].after = 1
    /\ flags = 1

(***************************************************************************)
(* The indent of the scopes, with the manual indent() and undent()         *)
(***************************************************************************)

\* add_method after else_block: indent() before the ".find_mut" lines.
Indent ==
    /\ Len(scopes) > 1
    /\ Top.kind = "if" /\ ~Top.raised
    /\ Len(buffer) < MaxLines
    /\ scopes' = [scopes EXCEPT ![Len(scopes)].indent = Writer_indent(Top.indent),
                                ![Len(scopes)].raised = TRUE]
    /\ roots' = Used(roots)
    /\ UNCHANGED <<buffer, sdkVars, nameVars, bitVars, prior, callVars>>

\* add_method after the ".map" line: undent().
Undent ==
    /\ Len(scopes) > 1
    /\ Top.raised
    /\ scopes' = [scopes EXCEPT ![Len(scopes)].indent = Writer_undent(Top.indent),
                                ![Len(scopes)].raised = FALSE]
    /\ roots' = Used(roots)
    /\ UNCHANGED <<buffer, sdkVars, nameVars, bitVars, prior, callVars>>

\* Between indent() and undent() add_method writes lines or returns with "?".
NextIndent ==
    \/ ~Top.raised /\ NextGen
    \/ Top.raised /\ (Content \/ ErrorReturn)
    \/ Indent
    \/ Undent

SpecIndent == InitGen /\ [][NextIndent]_vars

\* The nesting of the scope object line i is written through: the headers
\* before it that have no closer yet.
NestedAt(i) ==
    Cardinality({j \in 1..i - 1 : buffer[j].kind \in Headers})
    - Cardinality({j \in 1..i - 1 : buffer[j].kind = "closer"})

\* The lines written through a scope object by its user: all but the
\* closers and the else lines the scope objects write themselves.
Through == {i \in 1..Len(buffer) : buffer[i].kind \notin {"closer", "else"}}

\* The header of the innermost scope open at line i.
InnermostAt(i) ==
    Last({j \in 1..i - 1 :
            /\ buffer[j].kind \in Headers
            /\ \A m \in j + 1..i - 1 :
                   Cardinality({k \in j + 1..m : buffer[k].kind \in Headers})
                   >= Cardinality({k \in j + 1..m : buffer[k].kind = "closer"})})

\* No indent below zero, in a scope object or on a line.
NoUnderflow ==
    /\ \A k \in 1..Len(scopes) : scopes[k].indent >= 0
    /\ \A i \in 1..Len(buffer) : buffer[i].ind >= 0

\* C30 as stated: the indent never underflows, every line written through
\* a scope nested d levels below the root stands at 4*d, every scope
\* object that writes a closer has indent >= 4, and a parent's indent is
\* what it was when its child was opened.
C30_IndentAsStated ==
    /\ NoUnderflow
    /\ \A i \in Through : buffer[i].ind = INDENT * NestedAt(i)
    /\ \A k \in 2..Len(scopes) : scopes[k].indent >= INDENT
    /\ \A k \in 1..Len(scopes) - 1 : scopes[k].indent = INDENT * (k - 1)

\* C30, amended: the indent never underflows; a line written through a
\* scope nested d levels below the root stands at 4*d, or at 4*d + 4 when
\* it is written through an if-block between indent() and undent(); every
\* scope object that writes a closer has indent >= 4; and the indent of a
\* scope with an open child is what it was when the child was opened.
C30_IndentLevels ==
    /\ NoUnderflow
    /\ \A i \in Through :
           \/ buffer[i].ind = INDENT * NestedAt(i)
           \/ /\ buffer[i].ind = INDENT * NestedAt(i) + INDENT
              /\ buffer[InnermostAt(i)].kind = "if"
    /\ \A k \in 1..Len(scopes) :
           scopes[k].indent = INDENT * (k - 1) + (IF scopes[k].raised THEN INDENT ELSE 0)
    /\ \A k \in 2..Len(scopes) : scopes[k].indent >= INDENT
    /\ \A k \in 1..Len(scopes) - 1 : ~scopes[k].raised

\* The shape of add_method's else branch: inside a function's if-block a
\* line, a line between indent() and undent() one level deeper, a line
\* after undent() back at the level of the body, and both closers.
C30_Witness ==
    /\ Len(buffer) = 7 /\ Len(scopes) = 1
    /\ buffer[1].kind = "fn" /\ buffer[1].ind = 0
    /\ buffer[2].kind = "if" /\ buffer[2].ind = INDENT
    /\ buffer[3].kind = "line" /\ buffer[3].ind = 2 * INDENT
    /\ buffer[4].kind = "line" /\ buffer[4].ind = 3 * INDENT
    /\ buffer[5].kind = "line" /\ buffer[5].ind = 2 * INDENT
    /\ buffer[6].kind = "closer" /\ buffer[6].ind = INDENT
    /\ buffer[7].kind = "closer" /\ buffer[7].ind = 0

====
